---- MODULE Spec2Model ----
(***************************************************************************)
(* A model of krabzcnc-base: the cubic Bezier -> biarc fitting engine      *)
(* (BiArc, CubicBezier), the exact-geometry helpers (Intersection, Circle, *)
(* Line), the segment model (LineSeg, ArcSeg, BezSeg) and the path model   *)
(* (ArcPath, BezPath).                                                     *)
(*                                                                         *)
(* Numbers.  The program computes with IEEE doubles.  The model computes   *)
(* with integers: every coordinate, length, radius and tolerance is a      *)
(* whole number of resolution units, and every operation whose exact      *)
(* result is not a whole number (a division, a square root) is rounded to  *)
(* the nearest unit.  The program's hard cut-offs (1e-8, 1e-9, 1e-10) lie  *)
(* below one unit, so "x < 1e-9" on a non-negative x reads "x = 0" here.   *)
(* Curve parameters t are kept as exact fractions [n, d].                  *)
(* NaN, where the program produces one, is the record NaNVec.              *)
(***************************************************************************)
EXTENDS Integers, Sequences, FiniteSets, TLC

(***************************************************************************)
(* Arithmetic helpers (Math.abs, Math.min, Math.max, Math.sqrt, "/").      *)
(***************************************************************************)
Abs(a) == IF a < 0 THEN -a ELSE a

Min(a, b) == IF a < b THEN a ELSE b

Max(a, b) == IF a > b THEN a ELSE b

Sign(a) == IF a < 0 THEN -1 ELSE IF a > 0 THEN 1 ELSE 0

\* n / d rounded to the nearest integer (d # 0).
RDiv(n, d) == IF d < 0 THEN (2 * (-n) + (-d)) \div (2 * (-d)) ELSE (2 * n + d) \div (2 * d)

RECURSIVE SqrtIter(_, _)
SqrtIter(n, x) == LET y == (x + n \div x) \div 2 IN IF y >= x THEN x ELSE SqrtIter(n, y)

\* floor of the square root of n >= 0
SqrtFloor(n) == IF n < 2 THEN n ELSE SqrtIter(n, Min(n, 46340))

\* r = floor(sqrt(n)) rounded up when n lies nearer to (r + 1)^2
SqrtRound(n, r) == IF n - r * r > r THEN r + 1 ELSE r

\* Math.sqrt, rounded to the nearest integer
Sqrt(n) == SqrtRound(n, SqrtFloor(n))

\* The largest magnitude whose square fits a 32-bit integer with room for a
\* sum of two squares.
SafeSquare == 2^15 - 1

\* sqrt(x*x + y*y); magnitudes above SafeSquare are scaled down first, as a
\* double's exponent would do, at the price of a coarser mantissa.
ScaleFor(m) == IF m <= SafeSquare THEN 1 ELSE m \div 16384 + 1

HypotScaled(x, y, k) == k * Sqrt((x \div k) * (x \div k) + (y \div k) * (y \div k))

Hypot(x, y) == HypotScaled(x, y, ScaleFor(Max(Abs(x), Abs(y))))

LegScaled(r, a, k) == k * Sqrt((r \div k) * (r \div k) - (a \div k) * (a \div k))

\* sqrt(r*r - a*a) for 0 <= a <= r, scaled like Hypot
Leg(r, a) == LegScaled(r, a, ScaleFor(r))

(***************************************************************************)
(* Vector2d.  The class itself is not among the sources; its operations    *)
(* are modelled from their uses and from the specification (immutable      *)
(* value, arithmetic, dot/cross, length, rot90, equality with epsilon).    *)
(***************************************************************************)
Vec(x, y) == [x |-> x, y |-> y]

NaNVec == [nan |-> TRUE]

IsNaN(v) == "nan" \in DOMAIN v

\* Vector2d.equals compares with a fixed small epsilon: two units here, so
\* that points one unit apart are equal without being identical.
EPSILON == 2

plus(a, b) == Vec(a.x + b.x, a.y + b.y)

minus(a, b) == Vec(a.x - b.x, a.y - b.y)

\* v.multiply(n / d)
multiply(v, n, d) == Vec(RDiv(v.x * n, d), RDiv(v.y * n, d))

dot(a, b) == a.x * b.x + a.y * b.y

cross(a, b) == a.x * b.y - a.y * b.x

length(v) == Hypot(v.x, v.y)

lengthSquared(v) == v.x * v.x + v.y * v.y

dist(a, b) == length(minus(a, b))

distSquared(a, b) == lengthSquared(minus(a, b))

\* rot90(true) turns clockwise, rot90(false) counter-clockwise (y up): the
\* orientation under which findCenter((1,0),(0,1),1,false) is (0,0).
rot90(v, clockwise) == IF clockwise THEN Vec(v.y, -v.x) ELSE Vec(-v.y, v.x)

equals(a, b) ==
    IF IsNaN(a) \/ IsNaN(b) THEN FALSE
    ELSE Abs(a.x - b.x) < EPSILON /\ Abs(a.y - b.y) < EPSILON

\* Vector2d.lerp(a, b, t) for t = n/d
lerp(a, b, t) == Vec(a.x + RDiv((b.x - a.x) * t.n, t.d), a.y + RDiv((b.y - a.y) * t.n, t.d))

\* the midpoint a.plus(b).multiply(0.5)
midOf(a, b) == Vec(RDiv(a.x + b.x, 2), RDiv(a.y + b.y, 2))

\* cross(a - c, b - c), computed as cross(a - c, b - a): the same value with
\* one small factor, for centers that lie far away.
crossAbout(c, a, b) == cross(minus(a, c), minus(b, a))

\* The largest squared length whose square root is taken to a 32nd of a unit.
FineSquare == 2^20

\* x * 16 * n / len32 for n >= 0, the quotient in two steps, whole multiples
\* first, to stay within 32 bits
timesOverLength(x, n, len32) == 16 * x * (n \div len32) + RDiv(16 * x * (n % len32), len32)

\* v.multiply(n / d) for d = 2 * length(v) and n >= 0.  The length of a short
\* v is taken to a 32nd of a unit, since a long n multiplies its rounding.
multiplyByRatio(v, n, d) ==
    IF lengthSquared(v) <= FineSquare
    THEN Vec(timesOverLength(v.x, n, Sqrt(1024 * lengthSquared(v))),
             timesOverLength(v.y, n, Sqrt(1024 * lengthSquared(v))))
    ELSE multiply(v, n, d)

(***************************************************************************)
(* Circle (shapes): findCenter and getLineError.                           *)
(***************************************************************************)
Null == [null |-> TRUE]

IsNull(v) == "null" \in DOMAIN v

\* Circle.findCenter.  nVec.multiply(a) is computed in one step as
\* rot90(qVec) * a / q, since the unit vector nVec has no integer form; a is
\* kept doubled (a2 = 2a = sqrt(4 r^2 - q^2)).  q = 0 passes the guard when
\* radius > 0 and 1 / q is then Infinity, 0 * Infinity is NaN.
findCenterQ(p1, p2, radius, clockwise, qVec, q) ==
    LET small == radius <= SafeSquare \div 2 /\ Abs(qVec.x) <= SafeSquare /\ Abs(qVec.y) <= SafeSquare
        tooLong == IF small THEN radius <= 0 \/ lengthSquared(qVec) >= 4 * radius * radius
                   ELSE q >= radius * 2
        a2 == IF small THEN Sqrt(4 * radius * radius - lengthSquared(qVec))
              ELSE 2 * Leg(radius, q \div 2)
    IN  IF tooLong THEN Null
        ELSE IF q = 0 THEN NaNVec
        ELSE plus(midOf(p1, p2), multiplyByRatio(rot90(qVec, clockwise), a2, 2 * q))

findCenter(p1, p2, radius, clockwise) ==
    findCenterQ(p1, p2, radius, clockwise, minus(p2, p1), length(minus(p2, p1)))

\* Circle.getLineError, doubled: the midpoint (start + end) / 2 is kept as
\* start + end, so the value returned is twice the program's.
getLineError2(start, end, center, radius, clockwise) ==
    LET distToCenter2 == length(Vec(start.x + end.x - 2 * center.x, start.y + end.y - 2 * center.y))
        opposite == (crossAbout(center, start, end) < 0) # clockwise
    IN  IF opposite THEN 2 * radius + distToCenter2 ELSE 2 * radius - distToCenter2

(***************************************************************************)
(* Line (shapes): lineEquation, pointToLine, pointToSegmentDist, rdp.      *)
(***************************************************************************)
lineEquation(p1, p2) == <<p1.y - p2.y, p2.x - p1.x, p1.x * p2.y - p1.y * p2.x>>

\* den = 0 only for a line through two identical points: 0 / 0 is NaN.
pointToLine(p, a, b, c) ==
    LET den == a * a + b * b
    IN  IF den = 0 THEN NaNVec
        ELSE Vec(RDiv(b * (b * p.x - a * p.y) - a * c, den), RDiv(a * (a * p.y - b * p.x) - b * c, den))

\* t is compared with 0 and 1 only, so it is kept as the fraction num / den.
closestOnSegment(q, start, end) ==
    LET useX == Abs(start.x - end.x) > 0
        num == IF useX THEN q.x - start.x ELSE q.y - start.y
        den == IF useX THEN end.x - start.x ELSE end.y - start.y
    IN  IF Sign(num) * Sign(den) <= 0 THEN start
        ELSE IF Abs(num) >= Abs(den) THEN end
        ELSE q

pointToLineThrough(p, eq) == pointToLine(p, eq[1], eq[2], eq[3])

\* the point whose distance to `point` pointToSegmentDist returns
pointToSegmentFoot(point, start, end) ==
    IF equals(start, end) THEN start
    ELSE closestOnSegment(pointToLineThrough(point, lineEquation(start, end)), start, end)

pointToSegmentDist(point, start, end) == dist(point, pointToSegmentFoot(point, start, end))

SubSeq1(s, from, to) == IF from > to THEN <<>> ELSE SubSeq(s, from, to)

\* points.slice(b, e) on 0-based indices, e exclusive
slice(s, b, e) == SubSeq1(s, b + 1, Min(e, Len(s)))

\* the loop of rdpInternal: the first index (0-based) of the largest distance
RECURSIVE rdpMax(_, _, _, _)
rdpMax(points, i, maxDist, maxIdx) ==
    IF i >= Len(points) - 1 THEN <<maxDist, maxIdx>>
    ELSE rdpMax(points, i + 1,
                Max(maxDist, pointToSegmentDist(points[i + 1], points[1], points[Len(points)])),
                IF pointToSegmentDist(points[i + 1], points[1], points[Len(points)]) > maxDist
                THEN i ELSE maxIdx)

RECURSIVE rdpInternal(_, _)
\* the if / else of rdpInternal once the loop has left m = <<maxDist, maxIdx>>
rdpSplit(points, tolerance, m) ==
    IF m[1] > tolerance
    THEN rdpInternal(slice(points, 0, m[2] + 1), tolerance)
         \o <<points[m[2] + 1]>>
         \o rdpInternal(slice(points, m[2], Len(points)), tolerance)
    ELSE slice(points, 1, Len(points) - 2)

rdpInternal(points, tolerance) ==
    IF Len(points) <= 2 THEN <<>> ELSE rdpSplit(points, tolerance, rdpMax(points, 1, -1, -1))

rdp(points, tolerance) == <<points[1]>> \o rdpInternal(points, tolerance) \o <<points[Len(points)]>>

(***************************************************************************)
(* Sequence helpers (Array.map, reverse, reduce-concatenate).              *)
(***************************************************************************)
\* an Array.reverse that leaves the order as it is
reverse_none(s) == s

reverse(s) == [i \in 1..Len(s) |-> s[Len(s) + 1 - i]]

RECURSIVE concatAll(_)
concatAll(ss) == IF ss = <<>> THEN <<>> ELSE Head(ss) \o concatAll(Tail(ss))

\* A thrown value.  An expression that builds an array by calling a
\* constructor that throws has the value of the first throw.
Throw(msg) == [throw |-> msg]

ThrowAt(msg, index) == [throw |-> msg, index |-> index]

IsThrow(r) == "throw" \in DOMAIN r

HasThrow(ss) == \E i \in 1..Len(ss) : IsThrow(ss[i])

firstThrow(ss) == ss[CHOOSE i \in 1..Len(ss) : IsThrow(ss[i]) /\ \A j \in 1..(i - 1) : ~IsThrow(ss[j])]

(***************************************************************************)
(* LineSeg.                                                                *)
(***************************************************************************)
LineSeg(start, end) == [segType |-> "LINE", start |-> start, end |-> end]

LineSeg_toJson(seg) == [type |-> "line", s |-> <<seg.start.x, seg.start.y>>, e |-> <<seg.end.x, seg.end.y>>]

LineSeg_fromJson(json) == LineSeg(Vec(json.s[1], json.s[2]), Vec(json.e[1], json.e[2]))

LineSeg_splitAt(seg, p) == <<LineSeg(seg.start, p), LineSeg(p, seg.end)>>

\* the lines that join consecutive points of simpPoints
linesThrough(simpPoints) == [i \in 1..(Len(simpPoints) - 1) |-> LineSeg(simpPoints[i], simpPoints[i + 1])]

simplifyLines(lines, tolerance) ==
    IF Len(lines) = 1 THEN lines
    ELSE linesThrough(rdp([i \in 1..Len(lines) |-> lines[i].start] \o <<lines[Len(lines)].end>>, tolerance))

\* the forEach of simplifyLineSequences from segment i on, with the lines
\* collected so far in currLines
RECURSIVE simplifyLineSequencesFrom(_, _, _, _)
simplifyLineSequencesFrom(segs, i, currLines, tolerance) ==
    IF i <= Len(segs) /\ segs[i].segType = "LINE"
    THEN simplifyLineSequencesFrom(segs, i + 1, Append(currLines, segs[i]), tolerance)
    ELSE (IF Len(currLines) > 0 THEN simplifyLines(currLines, tolerance) ELSE <<>>)
         \o (IF i > Len(segs) THEN <<>>
             ELSE <<segs[i]>> \o simplifyLineSequencesFrom(segs, i + 1, <<>>, tolerance))

simplifyLineSequences(segs, tolerance) == simplifyLineSequencesFrom(segs, 1, <<>>, tolerance)

(***************************************************************************)
(* ArcSeg.                                                                 *)
(***************************************************************************)
ArcSegAbout(start, end, radius, clockwise, center) ==
    IF IsNull(center) THEN Throw("radius too small")
    ELSE [segType |-> "ARC", start |-> start, end |-> end, radius |-> radius,
          clockwise |-> clockwise, center |-> center]

ArcSeg(start, end, radius, clockwise) ==
    ArcSegAbout(start, end, radius, clockwise, findCenter(start, end, radius, clockwise))

\* cs.plus(ce).normalize().multiply(radius); the normal of a zero vector is
\* 0 / 0
scaledTo(v, radius, len) == IF len = 0 THEN NaNVec ELSE multiply(v, radius, len)

normalizedTimes(v, radius) == scaledTo(v, radius, length(v))

RECURSIVE toLines(_, _, _, _, _, _)
toLinesVia(start, mid, end, center, radius, clockwise, tolerance) ==
    toLines(start, mid, center, radius, clockwise, tolerance)
    \o toLines(mid, end, center, radius, clockwise, tolerance)

toLines(start, end, center, radius, clockwise, tolerance) ==
    IF getLineError2(start, end, center, radius, clockwise) < 2 * tolerance
    THEN <<LineSeg(start, end)>>
    ELSE toLinesVia(start, plus(center, normalizedTimes(plus(minus(start, center), minus(end, center)), radius)),
                    end, center, radius, clockwise, tolerance)

toLineSegs(seg, tolerance) == toLines(seg.start, seg.end, seg.center, seg.radius, seg.clockwise, tolerance)

ArcSeg_reversed(seg) == ArcSeg(seg.end, seg.start, seg.radius, ~seg.clockwise)

ArcSeg_midpoint(seg) ==
    plus(normalizedTimes(plus(minus(seg.start, seg.center), minus(seg.end, seg.center)), seg.radius), seg.center)

ArcSeg_splitAt(seg, p) == <<ArcSeg(seg.start, p, seg.radius, seg.clockwise), ArcSeg(p, seg.end, seg.radius, seg.clockwise)>>

ArcSeg_toJson(seg) ==
    [type |-> "arc", s |-> <<seg.start.x, seg.start.y>>, e |-> <<seg.end.x, seg.end.y>>,
     r |-> seg.radius, cw |-> seg.clockwise]

\* a decoder that does not read the cw flag
ArcSeg_fromJson_ccw(json) == ArcSeg(Vec(json.s[1], json.s[2]), Vec(json.e[1], json.e[2]), json.r, FALSE)

ArcSeg_fromJson(json) == ArcSeg(Vec(json.s[1], json.s[2]), Vec(json.e[1], json.e[2]), json.r, json.cw)

\* a.plus(b) where b may be NaN
plusNaN(a, b) == IF IsNaN(b) THEN NaNVec ELSE plus(a, b)

getMidVecSigned(sum, radius, sameWinding) ==
    IF sameWinding THEN scaledTo(sum, radius, length(sum)) ELSE scaledTo(sum, -radius, length(sum))

getMidVec(cs, ce, clockwise) == getMidVecSigned(plus(cs, ce), length(cs), (cross(cs, ce) < 0) = clockwise)

\* a test that never asks for a bisection
oneOrMore_never(cs, ce) == FALSE

\* "More than 90 deg"
oneOrMore_tooWide(cs, ce) == dot(cs, ce) <= 0

\* the array an expression builds, or the first throw met while building it
orThrow(segs) == IF HasThrow(segs) THEN <<firstThrow(segs)>> ELSE segs

RECURSIVE oneOrMore(_, _, _, _, _, _)
oneOrMoreVia(start, midPoint, end, radius, center, clockwise, tolerance) ==
    orThrow(oneOrMore(start, midPoint, radius, center, clockwise, tolerance)
            \o oneOrMore(midPoint, end, radius, center, clockwise, tolerance))

\* Every comparison with a NaN operand is false: a NaN start or end is
\* neither bisected, nor above the line error, nor equal to the other end.
oneOrMore(start, end, radius, center, clockwise, tolerance) ==
    IF IsNaN(start) \/ IsNaN(end) THEN <<LineSeg(start, end)>>
    ELSE IF oneOrMore_tooWide(minus(start, center), minus(end, center))
    THEN oneOrMoreVia(start, plusNaN(center, getMidVec(minus(start, center), minus(end, center), clockwise)),
                      end, radius, center, clockwise, tolerance)
    ELSE IF equals(start, end) THEN <<>>
    ELSE IF getLineError2(start, end, center, radius, clockwise) > tolerance
    THEN <<ArcSeg(start, end, radius, clockwise)>>
    ELSE <<LineSeg(start, end)>>

(***************************************************************************)
(* BezSeg.                                                                 *)
(***************************************************************************)
BezSeg(start, c1, c2, end) == [segType |-> "BEZ", start |-> start, c1 |-> c1, c2 |-> c2, end |-> end]

BezSeg_toJson(seg) ==
    [type |-> "bez", s |-> <<seg.start.x, seg.start.y>>, c1 |-> <<seg.c1.x, seg.c1.y>>,
     c2 |-> <<seg.c2.x, seg.c2.y>>, e |-> <<seg.end.x, seg.end.y>>]

BezSeg_fromJson(json) ==
    BezSeg(Vec(json.s[1], json.s[2]), Vec(json.c1[1], json.c1[2]), Vec(json.c2[1], json.c2[2]), Vec(json.e[1], json.e[2]))

\* Matrix3x3.transform for the affine matrix [a b c; d e f; 0 0 1]
transform(m, v) == Vec(m.a * v.x + m.b * v.y + m.c, m.d * v.x + m.e * v.y + m.f)

LineSeg_transformed(seg, m) == LineSeg(transform(m, seg.start), transform(m, seg.end))

BezSeg_transformed(seg, m) ==
    BezSeg(transform(m, seg.start), transform(m, seg.c1), transform(m, seg.c2), transform(m, seg.end))

seg_reversed(seg) == IF seg.segType = "LINE" THEN LineSeg(seg.end, seg.start) ELSE ArcSeg_reversed(seg)

seg_splitAt(seg, p) == IF seg.segType = "LINE" THEN LineSeg_splitAt(seg, p) ELSE ArcSeg_splitAt(seg, p)

seg_toJson(seg) ==
    IF seg.segType = "LINE" THEN LineSeg_toJson(seg)
    ELSE IF seg.segType = "ARC" THEN ArcSeg_toJson(seg) ELSE BezSeg_toJson(seg)

seg_transformed(seg, m) == IF seg.segType = "LINE" THEN LineSeg_transformed(seg, m) ELSE BezSeg_transformed(seg, m)

(***************************************************************************)
(* BoundingBox.                                                            *)
(***************************************************************************)
BoundingBox(min, max) ==
    IF min.x > max.x \/ min.y > max.y THEN Throw("min>max") ELSE [min |-> min, max |-> max]

\* a fromPoints that takes its points for the corners as they come
fromPoints_asGiven(p1, p2) == BoundingBox(p1, p2)

fromPoints(p1, p2) == BoundingBox(Vec(Min(p1.x, p2.x), Min(p1.y, p2.y)), Vec(Max(p1.x, p2.x), Max(p1.y, p2.y)))

extendWithPoint(bb, point) ==
    BoundingBox(Vec(Min(bb.min.x, point.x), Min(bb.min.y, point.y)), Vec(Max(bb.max.x, point.x), Max(bb.max.y, point.y)))

RECURSIVE mergeFrom(_, _, _)
mergeFrom(bbs, i, acc) ==
    IF i > Len(bbs) THEN BoundingBox(Vec(acc[1], acc[2]), Vec(acc[3], acc[4]))
    ELSE mergeFrom(bbs, i + 1, <<Min(acc[1], bbs[i].min.x), Min(acc[2], bbs[i].min.y),
                                 Max(acc[3], bbs[i].max.x), Max(acc[4], bbs[i].max.y)>>)

merge(bbs) ==
    IF Len(bbs) = 0 THEN Null
    ELSE mergeFrom(bbs, 1, <<bbs[1].min.x, bbs[1].min.y, bbs[1].max.x, bbs[1].max.y>>)

\* merge over an array whose building may have thrown
mergeBuilt(bbs) == IF HasThrow(bbs) THEN firstThrow(bbs) ELSE merge(bbs)

(***************************************************************************)
(* getBounds of the segments of an ArcPath.                                *)
(***************************************************************************)
LineSeg_getBounds(seg) == fromPoints(seg.start, seg.end)

\* the extension point of an arc that crosses an axis of its circle
ArcSeg_extension(center, towardsMin, offset) == IF towardsMin THEN minus(center, offset) ELSE plus(center, offset)

ArcSeg_getBoundsBy(seg, sameSideNS, sameSideEW, startWest, startSouth, defaultBounds) ==
    IF sameSideNS
    THEN (IF sameSideEW THEN defaultBounds
          ELSE extendWithPoint(defaultBounds, ArcSeg_extension(seg.center, startWest, Vec(seg.radius, 0))))
    ELSE (IF sameSideEW
          THEN extendWithPoint(defaultBounds, ArcSeg_extension(seg.center, startSouth, Vec(0, seg.radius)))
          ELSE Throw("startWest!==endWest && startSouth!==endSouth"))

ArcSeg_getBounds(seg) ==
    ArcSeg_getBoundsBy(seg,
        ((seg.start.x < seg.center.x) = (seg.end.x < seg.center.x))
            \/ seg.start.x = seg.center.x \/ seg.end.x = seg.center.x,
        ((seg.start.y < seg.center.y) = (seg.end.y < seg.center.y))
            \/ seg.start.y = seg.center.y \/ seg.end.y = seg.center.y,
        seg.start.x < seg.center.x, seg.start.y < seg.center.y, fromPoints(seg.start, seg.end))

seg_getBounds(seg) == IF seg.segType = "LINE" THEN LineSeg_getBounds(seg) ELSE ArcSeg_getBounds(seg)

(***************************************************************************)
(* ArcPath.                                                                *)
(***************************************************************************)
\* a constructor that filters nothing
ArcPath_filterNothing(segs) == segs

\* a constructor that finds no disruption
ArcPath_disruptionsNone(segs) == {}

\* the segments that survive the constructor's filter
ArcPath_filter(segs) == SelectSeq(segs, LAMBDA seg : ~equals(seg.start, seg.end))

\* the indices (1-based) at which the constructor's forEach would throw
ArcPath_disruptions(segs) ==
    {i \in 1..Len(segs) : ~equals(segs[i].end, segs[(i % Len(segs)) + 1].start)}

SetMin(S) == CHOOSE m \in S : \A n \in S : m <= n

\* new ArcPath(segs): the path, or the thrown value with the 0-based index
ArcPath_checked(kept, bad) ==
    IF bad # {} THEN ThrowAt("Path is not continuous, disruption after index", SetMin(bad) - 1)
    ELSE [kind |-> "ArcPath", segs |-> kept, cachedBounds |-> Null, cachedArea |-> Null]

ArcPath_ofKept(kept) == ArcPath_checked(kept, ArcPath_disruptions(kept))

ArcPath(segs) == ArcPath_ofKept(ArcPath_filter(segs))

\* new ArcPath(<array expression>), where building the array may throw
newArcPath(segs) == IF HasThrow(segs) THEN firstThrow(segs) ELSE ArcPath(segs)

isClosed(path) == Len(path.segs) > 1 /\ equals(path.segs[1].start, path.segs[Len(path.segs)].end)

asLines(path, tolerance) ==
    newArcPath(concatAll([i \in 1..Len(path.segs) |->
        IF path.segs[i].segType = "LINE" THEN <<path.segs[i]>> ELSE toLineSegs(path.segs[i], tolerance)]))

\* the sum of s.start.cross(s.end) over the segments
RECURSIVE crossSum(_)
crossSum(segs) == IF segs = <<>> THEN 0 ELSE cross(Head(segs).start, Head(segs).end) + crossSum(Tail(segs))

\* the value getArea computes when nothing is cached, kept doubled (the
\* factor 0.5 is left out, so that the value stays whole); asLines may throw
ArcPath_computedArea(lines) == IF IsThrow(lines) THEN lines ELSE [v |-> crossSum(lines.segs)]

\* what path.getArea(tolerance) returns or throws; a number n is [v |-> n]
ArcPath_getArea(path, tolerance) ==
    IF IsNull(path.cachedArea) THEN ArcPath_computedArea(asLines(path, tolerance)) ELSE path.cachedArea

\* the receiver once getArea has run to value
ArcPath_afterGetArea(path, value) == IF IsThrow(value) THEN path ELSE [path EXCEPT !.cachedArea = value]

\* what path.getBounds() returns or throws
ArcPath_getBounds(path) ==
    IF IsNull(path.cachedBounds) THEN mergeBuilt([i \in 1..Len(path.segs) |-> seg_getBounds(path.segs[i])])
    ELSE path.cachedBounds

\* the receiver once getBounds has run to value
ArcPath_afterGetBounds(path, value) == IF IsThrow(value) THEN path ELSE [path EXCEPT !.cachedBounds = value]

\* the two assignments to result's caches
ArcPath_reversedCaches(path, result) ==
    IF IsThrow(result) THEN result
    ELSE [result EXCEPT !.cachedBounds = path.cachedBounds,
                        !.cachedArea = IF IsNull(path.cachedArea) THEN Null ELSE [v |-> -path.cachedArea.v]]

ArcPath_reversed(path) ==
    ArcPath_reversedCaches(path, newArcPath(reverse([i \in 1..Len(path.segs) |-> seg_reversed(path.segs[i])])))

\* the cut-off 1e-10 lies below one unit
segTooTiny(seg) == Abs(seg.start.x - seg.end.x) = 0 /\ Abs(seg.start.y - seg.end.y) = 0

\* a first step that takes every arc for a line
simplify_tmpAllLines(segs, tolerance) == [i \in 1..Len(segs) |-> LineSeg(segs[i].start, segs[i].end)]

\* simplify, first step: arcs with a small line error become lines
simplify_tmp(segs, tolerance) ==
    [i \in 1..Len(segs) |->
        IF segs[i].segType = "ARC"
           /\ getLineError2(segs[i].start, segs[i].end, segs[i].center, segs[i].radius, segs[i].clockwise) < tolerance
        THEN LineSeg(segs[i].start, segs[i].end) ELSE segs[i]]

\* second step: line runs simplified, tiny segments removed
simplify_tmp2(tmp, tolerance) == SelectSeq(simplifyLineSequences(tmp, tolerance), LAMBDA seg : ~segTooTiny(seg))

simplify_stitch(seg, next) ==
    IF equals(seg.end, next.start) THEN seg
    ELSE IF seg.segType = "LINE" THEN LineSeg(seg.start, next.start)
    ELSE ArcSeg(seg.start, next.start, seg.radius, seg.clockwise)

\* third step: each segment ends where the next one starts
simplify_tmp3(tmp2) == [idx \in 1..Len(tmp2) |-> simplify_stitch(tmp2[idx], tmp2[(idx % Len(tmp2)) + 1])]

ArcPath_simplify(path, tolerance) == newArcPath(simplify_tmp3(simplify_tmp2(simplify_tmp(path.segs, tolerance), tolerance)))

\* withNewEntryPoint; splitSegIndex is 0-based as in the program.  The
\* second test has no comparison: a distance is truthy when it is not 0.
withNewEntryPoint_split(before, after, splitted) == <<splitted[2]>> \o after \o before \o <<splitted[1]>>

withNewEntryPoint_segs(before, after, splitSeg, newEntryPoint, tolerance) ==
    IF 2 * dist(newEntryPoint, splitSeg.start) < tolerance
    THEN <<splitSeg>> \o after \o before
    ELSE IF dist(newEntryPoint, splitSeg.end) # 0
    THEN before \o after \o <<splitSeg>>
    ELSE withNewEntryPoint_split(before, after, seg_splitAt(splitSeg, newEntryPoint))

\* withNewEntryPoint without its first statement: on a path without segments
\* splitSeg is undefined and reading splitSeg.start fails
withNewEntryPoint_unguarded(path, splitSegIndex, newEntryPoint, tolerance) ==
    IF Len(path.segs) = 0 THEN Throw("TypeError")
    ELSE newArcPath(withNewEntryPoint_segs(slice(path.segs, 0, splitSegIndex),
                                           slice(path.segs, splitSegIndex + 1, Len(path.segs)),
                                           path.segs[splitSegIndex + 1], newEntryPoint, tolerance))

withNewEntryPoint(path, splitSegIndex, newEntryPoint, tolerance) ==
    IF ~isClosed(path) THEN Throw("ArcPath is not closed")
    ELSE newArcPath(withNewEntryPoint_segs(slice(path.segs, 0, splitSegIndex),
                                           slice(path.segs, splitSegIndex + 1, Len(path.segs)),
                                           path.segs[splitSegIndex + 1], newEntryPoint, tolerance))

path_toJson(path) == [i \in 1..Len(path.segs) |-> seg_toJson(path.segs[i])]

ArcPath_fromJson(segs) ==
    newArcPath([i \in 1..Len(segs) |->
        IF segs[i].type = "line" THEN LineSeg_fromJson(segs[i]) ELSE ArcSeg_fromJson(segs[i])])

(***************************************************************************)
(* BezPath.                                                                *)
(***************************************************************************)
BezPath_filter(segs) == SelectSeq(segs, LAMBDA seg : ~(seg.segType = "LINE" /\ equals(seg.start, seg.end)))

\* the indices (1-based) at which the constructor's forEach would throw
BezPath_disruptions(segs) == {i \in 2..Len(segs) : ~equals(segs[i].start, segs[i - 1].end)}

BezPath_checked(kept, bad) ==
    IF bad # {} THEN ThrowAt("Path is not continuous, disruption at index", SetMin(bad) - 1)
    ELSE [kind |-> "BezPath", segs |-> kept, cachedBounds |-> Null]

BezPath_ofKept(kept) == BezPath_checked(kept, BezPath_disruptions(kept))

BezPath(segs) == BezPath_ofKept(BezPath_filter(segs))

BezPath_transformed(path, m) == BezPath([i \in 1..Len(path.segs) |-> seg_transformed(path.segs[i], m)])

BezPath_fromJson(segs) ==
    BezPath([i \in 1..Len(segs) |->
        IF segs[i].type = "line" THEN LineSeg_fromJson(segs[i]) ELSE BezSeg_fromJson(segs[i])])

boundsDiagonal(maxBounds) == dist(maxBounds.min, maxBounds.max)

BezPath_simplify_tmp(segs, tolerance) ==
    [i \in 1..Len(segs) |->
        IF segs[i].segType = "BEZ"
           /\ 2 * boundsDiagonal(merge(<<fromPoints(segs[i].start, segs[i].end), fromPoints(segs[i].c1, segs[i].c2)>>))
              < tolerance
        THEN LineSeg(segs[i].start, segs[i].end) ELSE segs[i]]

BezPath_simplify(path, tolerance) == BezPath(simplifyLineSequences(BezPath_simplify_tmp(path.segs, tolerance), tolerance))

\* the box BezPath.getBounds takes for a segment: that of its ends for a
\* line, that of its four control points for a curve
BezPath_segBounds(seg) ==
    IF seg.segType = "LINE" THEN fromPoints(seg.start, seg.end)
    ELSE mergeBuilt(<<fromPoints(seg.start, seg.c1), fromPoints(seg.c2, seg.end)>>)

\* what path.getBounds() returns or throws
BezPath_getBounds(path) ==
    IF IsNull(path.cachedBounds) THEN mergeBuilt([i \in 1..Len(path.segs) |-> BezPath_segBounds(path.segs[i])])
    ELSE path.cachedBounds

(***************************************************************************)
(* Intersection: line2line and arc2arc.                                    *)
(***************************************************************************)
\* 0 < n / d < 1, for a parameter kept as the fraction n / d
InOpenUnit(n, d) == IF d < 0 THEN 0 < -n /\ -n < -d ELSE 0 < n /\ n < d

\* w = seg2[0] - seg1[0]; t1 = cross(w, delta2) / det, t2 = cross(w, delta1) / det
line2lineVia(origin, delta1, delta2, w, det) ==
    IF det = 0 THEN Null
    ELSE [inRange |-> InOpenUnit(cross(w, delta2), det) /\ InOpenUnit(cross(w, delta1), det),
          t1 |-> [n |-> cross(w, delta2), d |-> det],
          t2 |-> [n |-> cross(w, delta1), d |-> det],
          p |-> plus(origin, multiply(delta1, cross(w, delta2), det))]

\* Intersection.line2line; a segment is a pair <<from, to>>
line2line(seg1, seg2) ==
    line2lineVia(seg1[1], minus(seg1[2], seg1[1]), minus(seg2[2], seg2[1]), minus(seg2[1], seg1[1]),
                 cross(minus(seg1[2], seg1[1]), minus(seg2[2], seg2[1])))

\* the two crossings m + rot(q), m - rot(q)
arc2arcPair(m, q) == <<Vec(m.x + q.y, m.y - q.x), Vec(m.x - q.y, m.y + q.x)>>

\* a is kept doubled (a2 = 2a), and so is h (hh = 2h = sqrt(4 r1^2 - a2^2))
arc2arcAt(c1, r1, c1c2, d, a2) ==
    IF Abs(a2) > 2 * r1 THEN <<>>
    ELSE IF Abs(a2) = 2 * r1 THEN <<plus(c1, multiply(c1c2, a2, 2 * d))>>
    ELSE arc2arcPair(plus(c1, multiply(c1c2, a2, 2 * d)),
                     multiplyByRatio(c1c2,
                                     IF r1 <= SafeSquare \div 2 THEN Sqrt(4 * r1 * r1 - a2 * a2)
                                     ELSE 2 * Leg(r1, Abs(a2) \div 2),
                                     2 * d))

arc2arcVia(c1, r1, r2, c1c2, d) ==
    IF d = 0 THEN <<>>
    ELSE IF d > r1 + r2 THEN <<>>
    ELSE arc2arcAt(c1, r1, c1c2, d, RDiv((r1 - r2) * (r1 + r2) + d * d, d))

\* Intersection.arc2arc
arc2arc(c1, r1, c2, r2) == arc2arcVia(c1, r1, r2, minus(c2, c1), length(minus(c2, c1)))

(***************************************************************************)
(* CubicBezier.  A curve is the tuple <<s, c1, c2, e>> of its points; a    *)
(* parameter t is the fraction [n, d].                                     *)
(***************************************************************************)
calc(s, c1, c2, e, t) ==
    RDiv((t.d - t.n) * (t.d - t.n) * (t.d - t.n) * s + 3 * (t.d - t.n) * (t.d - t.n) * t.n * c1
         + 3 * (t.d - t.n) * t.n * t.n * c2 + t.n * t.n * t.n * e,
         t.d * t.d * t.d)

calculate(s, c1, c2, e, t) == Vec(calc(s.x, c1.x, c2.x, e.x, t), calc(s.y, c1.y, c2.y, e.y, t))

\* a split whose second curve starts at c12 instead of the split point dp
splitAt_gap(s, e, c11, c22, c21, c12, dp) == <<<<s, c11, c21, dp>>, <<c12, c12, c22, e>>>>

splitAt(s, e, c11, c22, c21, c12, dp) == <<<<s, c11, c21, dp>>, <<dp, c12, c22, e>>>>

splitInner(s, e, c11, c22, c21, c12, t) == splitAt(s, e, c11, c22, c21, c12, lerp(c21, c12, t))

splitOuter(s, e, c11, c22, p1_, t) == splitInner(s, e, c11, c22, lerp(c11, p1_, t), lerp(p1_, c22, t), t)

\* CubicBezier.split: the two curves <<s, c11, c21, dp>> and <<dp, c12, c22, e>>
split(s, c1, c2, e, t) == splitOuter(s, e, lerp(s, c1, t), lerp(c2, e, t), lerp(c1, c2, t), t)

RECURSIVE GCD(_, _)
GCD(a, b) == IF b = 0 THEN a ELSE GCD(b, a % b)

\* the digits kept of a square root that enters a parameter t
RootScale == 16

\* the roots of a t^2 + b t + c inside (0, 1).  a = 0 divides by zero: the
\* quotient is an infinity or NaN and passes no filter.
inflectionRoots(a, b, det) ==
    IF det < 0 THEN <<>>
    ELSE IF a = 0 THEN <<>>
    ELSE IF det = 0 THEN (IF InOpenUnit(-b, 2 * a) THEN <<[n |-> -b, d |-> 2 * a]>> ELSE <<>>)
    ELSE SelectSeq(<<[n |-> Sqrt(det * RootScale * RootScale) - b * RootScale, d |-> 2 * a * RootScale],
                     [n |-> -Sqrt(det * RootScale * RootScale) - b * RootScale, d |-> 2 * a * RootScale]>>,
                   LAMBDA t : InOpenUnit(t.n, t.d))

\* the coefficients are reduced by their common factor g first (the roots
\* are the same), so that the discriminant stays in range
inflectionReduced(a, b, c, g) ==
    IF g = 0 THEN inflectionRoots(0, 0, 0)
    ELSE inflectionRoots(a \div g, b \div g, (b \div g) * (b \div g) - 4 * (a \div g) * (c \div g))

inflectionCoefficients(a, b, c) == inflectionReduced(a, b, c, GCD(GCD(Abs(a), Abs(b)), Abs(c)))

inflectionVectors(aVec, bVec, cVec) == inflectionCoefficients(cross(bVec, cVec), cross(aVec, cVec), cross(aVec, bVec))

inflectionVia(aVec, bVec, e_c2) == inflectionVectors(aVec, bVec, minus(minus(e_c2, aVec), multiply(bVec, 2, 1)))

\* CubicBezier.inflectionPoints
inflectionPoints(s, c1, c2, e) == inflectionVia(minus(c1, s), minus(minus(c2, c1), minus(c1, s)), minus(e, c2))

isBetween(value, v1, v2) == IF v1 <= v2 THEN v1 <= value /\ value <= v2 ELSE v2 <= value /\ value <= v1

CubicBezier_lineEquation(p1, p2) == <<-(p2.y - p1.y), p2.x - p1.x, cross(p1, p2)>>

\* den = 0 when p1 = p2: the quotients are NaN
CubicBezier_pointToLine(p, a, b, c) ==
    IF a * a + b * b = 0 THEN NaNVec
    ELSE Vec(RDiv(b * (b * p.x - a * p.y) - a * c, a * a + b * b),
             RDiv(a * (a * p.y - b * p.x) - b * c, a * a + b * b))

\* every comparison with a NaN coordinate is false
withinToleranceAt(cp, p1, p2, c1Hat, tolSquared) ==
    IF IsNaN(c1Hat) THEN FALSE
    ELSE IF distSquared(cp, c1Hat) > tolSquared THEN FALSE
    ELSE IF ~isBetween(c1Hat.x, p1.x, p2.x) THEN FALSE
    ELSE IF ~isBetween(c1Hat.y, p1.y, p2.y) THEN FALSE
    ELSE TRUE

controlPointDistanceWithinToleranceFromLine(cp, p1, p2, a, b, c, tolSquared) ==
    withinToleranceAt(cp, p1, p2, CubicBezier_pointToLine(cp, a, b, c), tolSquared)

isFlatBy(p1, c1, c2, p2, eq, tolSquared) ==
    /\ controlPointDistanceWithinToleranceFromLine(c1, p1, p2, eq[1], eq[2], eq[3], tolSquared)
    /\ controlPointDistanceWithinToleranceFromLine(c2, p1, p2, eq[1], eq[2], eq[3], tolSquared)

\* CubicBezier.isFlat
isFlat(p1, c1, c2, p2, tolerance) ==
    IF distSquared(p1, c1) < tolerance * tolerance /\ distSquared(p2, c2) < tolerance * tolerance THEN TRUE
    ELSE isFlatBy(p1, c1, c2, p2, CubicBezier_lineEquation(p1, p2), tolerance * tolerance)

\* the shoelace sum with the opposite sign convention
isClockwise_opposite(s, c1, c2, e) ==
    (c1.x - s.x) * (c1.y + s.y) + (c2.x - c1.x) * (c2.y + c1.y)
    + (e.x - c2.x) * (e.y + c2.y) + (s.x - e.x) * (s.y + e.y) < 0

\* CubicBezier.isClockwise: the shoelace sum over s, c1, c2, e
isClockwise(s, c1, c2, e) ==
    (c1.x - s.x) * (c1.y + s.y) + (c2.x - c1.x) * (c2.y + c1.y)
    + (e.x - c2.x) * (e.y + c2.y) + (s.x - e.x) * (s.y + e.y) >= 0

(***************************************************************************)
(* BiArc.  A descriptor (biarcSeg) is a record with arc = FALSE (a line)   *)
(* or arc = TRUE (an arc with center, radius and winding).                 *)
(*                                                                         *)
(* fromBezier and fromMonotoneBezier are recursive through each other's    *)
(* results.  Here one call is one evaluation: it yields either the         *)
(* descriptors it returns without recursing (emit), or the sub-curves it   *)
(* recurses on, in order, each with the depth argument it passes (calls).  *)
(* The fitting machine below runs the calls depth first, left to right,    *)
(* which is the order in which the program concatenates their results.     *)
(***************************************************************************)
MaxDepth == 50

Half == [n |-> 1, d |-> 2]

BiArc_line(start, end) == [arc |-> FALSE, start |-> start, end |-> end]

\* getLineError2 is twice the line error: < tolerance reads < tolerance / 2
arcOrLine(start, end, center, radius, clockwise, tolerance) ==
    IF getLineError2(start, end, center, radius, clockwise) < tolerance THEN BiArc_line(start, end)
    ELSE [arc |-> TRUE, start |-> start, end |-> end, center |-> center, radius |-> radius,
          clockwise |-> clockwise]

crossingPoint(crossing) == IF IsNull(crossing) THEN Null ELSE crossing.p

BiArc_findCenterVia(p, c, g, pgmid) ==
    crossingPoint(line2line(<<p, plus(p, rot90(minus(c, p), TRUE))>>,
                            <<pgmid, plus(pgmid, rot90(minus(g, p), TRUE))>>))

\* BiArc.findCenter
BiArc_findCenter(p, c, g) == BiArc_findCenterVia(p, c, g, midOf(p, g))

calcErrorAt(bt, center1, radius1, center2, radius2) ==
    Min(Abs(dist(center1, bt) - radius1), Abs(dist(center2, bt) - radius2))

\* BiArc.calcError
calcError(p1, c1, c2, p2, t, center1, radius1, center2, radius2) ==
    calcErrorAt(calculate(p1, c1, c2, p2, t), center1, radius1, center2, radius2)

singleArcAbout(p1, p2, center, radius, tolerance) ==
    <<arcOrLine(p1, p2, center, radius, crossAbout(center, p1, p2) < 0, tolerance)>>

singleArcAmong(p1, p2, inaccurateCenter, radius, tolerance, centerCandidates) ==
    IF Len(centerCandidates) = 2
    THEN singleArcAbout(p1, p2,
                        IF dist(centerCandidates[1], inaccurateCenter) < dist(centerCandidates[2], inaccurateCenter)
                        THEN centerCandidates[1] ELSE centerCandidates[2],
                        radius, tolerance)
    ELSE <<BiArc_line(p1, p2)>>

\* BiArc.singleArcOrLine
singleArcOrLine(p1, p2, inaccurateCenter, radius, tolerance) ==
    singleArcAmong(p1, p2, inaccurateCenter, radius, tolerance, arc2arc(p1, radius, p2, radius))

\* the circles of the arcs among descriptors
circlesOf(descriptors) ==
    [i \in 1..Len(SelectSeq(descriptors, LAMBDA d : d.arc)) |->
        [center |-> SelectSeq(descriptors, LAMBDA d : d.arc)[i].center,
         radius |-> SelectSeq(descriptors, LAMBDA d : d.arc)[i].radius]]

\* a call that returns descriptors without recursing
Returned(branch, emit, circles) == [branch |-> branch, emit |-> emit, calls |-> <<>>, circles |-> circles]

\* a call that returns the concatenation of fromMonotoneBezier(curves[i], tolerance, depth)
Recurse(branch, curves, depth) ==
    [branch |-> branch, emit |-> <<>>, circles |-> <<>>,
     calls |-> [i \in 1..Len(curves) |-> [bez |-> curves[i], depth |-> depth]]]

\* BiArc.splitInHalf: both halves get the caller's depth
splitInHalf(p1, c1, c2, p2, tolerance, depth) == Recurse("splitInHalf", split(p1, c1, c2, p2, Half), depth)

\* results.reduce((p, v) => (p[1] > v[1] ? p : v), [0, 0])
worse(p, v) == IF p[2] > v[2] THEN p ELSE v

\* tt = 0.2, 0.4, 0.6, 0.8 are the fractions i / 5
sampleErrors(p1, c1, c2, p2, s1, r1, s2, r2) ==
    [i \in 1..4 |-> <<i, calcError(p1, c1, c2, p2, [n |-> i, d |-> 5], s1, r1, s2, r2)>>]

maxSample(results) == worse(worse(worse(worse(<<0, 0>>, results[1]), results[2]), results[3]), results[4])

monoFit(p1, c1, c2, p2, tolerance, depth, g, s1, s2, r1, r2, max) ==
    IF max[2] > tolerance
    THEN Recurse("error split", split(p1, c1, c2, p2, [n |-> max[1], d |-> 5]), depth + 1)
    ELSE Returned("biarc",
                  <<arcOrLine(p1, g, s1, r1, isClockwise(p1, c1, c2, p2), tolerance),
                    arcOrLine(g, p2, s2, r2, isClockwise(p1, c1, c2, p2), tolerance)>>,
                  <<[center |-> s1, radius |-> r1], [center |-> s2, radius |-> r2]>>)

singleArc(branch, emit) == Returned(branch, emit, circlesOf(emit))

monoRadii(p1, c1, c2, p2, tolerance, depth, g, s1, s2, r1, r2) ==
    IF length(minus(p1, g)) < tolerance
    THEN singleArc("single arc, g at p1", singleArcOrLine(p1, p2, s2, r2, tolerance))
    ELSE IF length(minus(p2, g)) < tolerance
    THEN singleArc("single arc, g at p2", singleArcOrLine(p1, p2, s1, r1, tolerance))
    ELSE IF r1 < tolerance \/ r2 < tolerance THEN splitInHalf(p1, c1, c2, p2, tolerance, depth)
    ELSE monoFit(p1, c1, c2, p2, tolerance, depth, g, s1, s2, r1, r2,
                 maxSample(sampleErrors(p1, c1, c2, p2, s1, r1, s2, r2)))

\* a fit that answers a center it cannot build with the chord
monoCenters_chord(p1, c1, c2, p2, tolerance, depth, g, s1, s2) ==
    IF IsNull(s1) \/ IsNull(s2) THEN Returned("no center", <<BiArc_line(p1, p2)>>, <<>>)
    ELSE monoRadii(p1, c1, c2, p2, tolerance, depth, g, s1, s2, length(minus(s1, p1)), length(minus(s2, p2)))

monoCenters(p1, c1, c2, p2, tolerance, depth, g, s1, s2) ==
    IF IsNull(s1) \/ IsNull(s2) THEN splitInHalf(p1, c1, c2, p2, tolerance, depth)
    ELSE monoRadii(p1, c1, c2, p2, tolerance, depth, g, s1, s2, length(minus(s1, p1)), length(minus(s2, p2)))

monoG(p1, c1, c2, p2, tolerance, depth, g) ==
    monoCenters(p1, c1, c2, p2, tolerance, depth, g, BiArc_findCenter(p1, c1, g), BiArc_findCenter(p2, c2, g))

\* g, the incenter of the triangle p1, p2, v
monoIncenter(p1, c1, c2, p2, tolerance, depth, v, dp1v, dp2v, dp1p2) ==
    monoG(p1, c1, c2, p2, tolerance, depth,
          Vec(RDiv(dp2v * p1.x + dp1v * p2.x + dp1p2 * v.x, dp2v + dp1v + dp1p2),
              RDiv(dp2v * p1.y + dp1v * p2.y + dp1p2 * v.y, dp2v + dp1v + dp1p2)))

monoV(p1, c1, c2, p2, tolerance, depth, v) ==
    IF dot(minus(c1, p1), minus(v, p1)) < 0 THEN splitInHalf(p1, c1, c2, p2, tolerance, depth)
    ELSE monoIncenter(p1, c1, c2, p2, tolerance, depth, v,
                      length(minus(v, p1)), length(minus(v, p2)), length(minus(p2, p1)))

monoCrossing(p1, c1, c2, p2, tolerance, depth, crossing) ==
    IF IsNull(crossing) THEN splitInHalf(p1, c1, c2, p2, tolerance, depth)
    ELSE monoV(p1, c1, c2, p2, tolerance, depth, crossing.p)

\* BiArc.fromMonotoneBezier, one call
fromMonotoneBezier(p1, c1, c2, p2, tolerance, depth) ==
    IF depth > MaxDepth THEN Throw("too deep")
    ELSE IF isFlat(p1, c1, c2, p2, tolerance) THEN Returned("flat", <<BiArc_line(p1, p2)>>, <<>>)
    ELSE IF length(minus(p2, p1)) < tolerance THEN Returned("short", <<BiArc_line(p1, p2)>>, <<>>)
    ELSE monoCrossing(p1, c1, c2, p2, tolerance, depth, line2line(<<p1, c1>>, <<p2, c2>>))

\* t < u for fractions
FracLess(t, u) == Sign(t.d) * t.n * Abs(u.d) < Sign(u.d) * u.n * Abs(t.d)

\* the curve is split at ipMin, and its second part at ipMax as it stands
fromBezierThree(parts, ipMax) ==
    Recurse("two inflections",
            <<parts[1]>> \o split(parts[2][1], parts[2][2], parts[2][3], parts[2][4], ipMax), 0)

fromBezierTwo(p1, c1, c2, p2, ipMin, ipMax) == fromBezierThree(split(p1, c1, c2, p2, ipMin), ipMax)

fromBezierInflections(p1, c1, c2, p2, ip) ==
    IF Len(ip) = 1 THEN Recurse("one inflection", split(p1, c1, c2, p2, ip[1]), 0)
    ELSE IF Len(ip) = 2
    THEN fromBezierTwo(p1, c1, c2, p2,
                       IF FracLess(ip[2], ip[1]) THEN ip[2] ELSE ip[1],
                       IF FracLess(ip[2], ip[1]) THEN ip[1] ELSE ip[2])
    ELSE Recurse("monotone", <<<<p1, c1, c2, p2>>>>, 0)

fromBezierCrossing(p1, c1, c2, p2, tolerance, handleCrossing) ==
    IF ~IsNull(handleCrossing) /\ handleCrossing.inRange
    THEN Recurse("handles cross", split(p1, c1, c2, p2, Half), 0)
    ELSE IF isFlat(p1, c1, c2, p2, tolerance) THEN Returned("flat", <<BiArc_line(p1, p2)>>, <<>>)
    ELSE fromBezierInflections(p1, c1, c2, p2, inflectionPoints(p1, c1, c2, p2))

\* BiArc.fromBezier, its own body; a failure of a call it makes is rethrown
fromBezier(p1, c1, c2, p2, tolerance) ==
    IF equals(p1, p2) THEN Recurse("endpoints coincide", split(p1, c1, c2, p2, Half), 0)
    ELSE fromBezierCrossing(p1, c1, c2, p2, tolerance, line2line(<<p1, c1>>, <<p2, c2>>))

(***************************************************************************)
(* BezSeg.toLASegs and BezSeg.toLines.                                     *)
(***************************************************************************)
\* a line whatever its ends
lineAlways(start, end) == <<LineSeg(start, end)>>

\* start.equals(end) ? [] : [new LineSeg(start, end)]
lineUnlessEmpty(start, end) == IF equals(start, end) THEN <<>> ELSE <<LineSeg(start, end)>>

\* a test that finds no radius too large
toLASegs_radiusNeverAbove(radius, maxRadius) == FALSE

toLASegs_radiusAbove(radius, maxRadius) == radius > maxRadius

\* the callback of map in toLASegs, for one descriptor
toLASegs_map(seg, tolerance, maxRadius) ==
    IF seg.arc
    THEN (IF toLASegs_radiusAbove(seg.radius, maxRadius) THEN lineUnlessEmpty(seg.start, seg.end)
          ELSE oneOrMore(seg.start, seg.end, seg.radius, seg.center, seg.clockwise, tolerance))
    ELSE lineUnlessEmpty(seg.start, seg.end)

\* toLASegs with arcs enabled, from the descriptors BiArc.fromBezier returned
\* (or from its throw, which toLASegs does not catch)
toLASegs_mapped(descriptors, tolerance, maxRadius) ==
    IF HasThrow(descriptors) THEN <<firstThrow(descriptors)>>
    ELSE orThrow(concatAll([i \in 1..Len(descriptors) |-> toLASegs_map(descriptors[i], tolerance, maxRadius)]))

RECURSIVE BezSeg_toLines(_, _, _, _, _)
BezSeg_toLinesOf(halves, tolerance) ==
    BezSeg_toLines(halves[1][1], halves[1][2], halves[1][3], halves[1][4], tolerance)
    \o BezSeg_toLines(halves[2][1], halves[2][2], halves[2][3], halves[2][4], tolerance)

BezSeg_toLines(s, c1, c2, e, tolerance) ==
    IF isFlat(s, c1, c2, e, tolerance) THEN lineUnlessEmpty(s, e)
    ELSE BezSeg_toLinesOf(split(s, c1, c2, e, Half), tolerance)

(***************************************************************************)
(* The path machine: a caller collects segments in an array, constructs an *)
(* ArcPath or a BezPath from it, and calls operations on the path it got.  *)
(***************************************************************************)
VARIABLES
    pending,    \* the array of segments the caller is collecting
    recv,       \* the receiver of the last operation as the call left it (Null for a constructor)
    path,       \* the value of the last new / operation: a path or a throw
    op,         \* the last operation and its arguments
    nops,       \* the number of operations called since construction
    arcOp,      \* arc machine: the last call and its arguments
    arcOut,     \* arc machine: its value, an ArcSeg, an array of segments, or a throw
    fitIn,      \* fitting machine: the call of BiArc.fromBezier being run
    fitStack,   \* fitting machine: the calls of fromMonotoneBezier still to run
    fitOut,     \* fitting machine: the descriptors returned so far, or <<the throw>>
    fitLeaf,    \* fitting machine: the last call that returned without recursing
    laIn,       \* fitting machine: the call of BezSeg.toLASegs that has returned
    laOut,      \* fitting machine: the segments toLASegs returned, or <<the throw>>
    nesting,    \* depth machine: the recursive calls below fromBezier's own
    depth,      \* depth machine: the depth argument of the innermost call
    failure,    \* depth machine: "none", or the failure thrown
    geoOp,      \* geometry machine: the call made, with its arguments
    geoOut      \* geometry machine: what the call returned, or the throw

pathVars == <<pending, recv, path, op, nops>>

arcVars == <<arcOp, arcOut>>

fitVars == <<fitIn, fitStack, fitOut, fitLeaf, laIn, laOut>>

depthVars == <<nesting, depth, failure>>

geoVars == <<geoOp, geoOut>>

vars == <<pathVars, arcVars, fitVars, depthVars, geoVars>>

MaxSegs == 3

MaxOps == 2

PA == Vec(0, 0)

PB == Vec(40, 0)

PC == Vec(40, 30)

\* a point that equals PB within EPSILON without being PB
PN == Vec(41, 0)

\* with PA, the ends of an arc of radius 25 about (0, -25) that starts at the
\* circle's northernmost point and spans more than a quarter turn
PD == Vec(-24, -32)

\* a point closer to PA than the larger tolerance
PE == Vec(0, 10)

LinePool ==
    {LineSeg(PA, PB), LineSeg(PB, PC), LineSeg(PC, PA), LineSeg(PB, PA), LineSeg(PA, PC),
     LineSeg(PN, PC), LineSeg(PB, PN), LineSeg(PA, PA), LineSeg(PD, PA),
     LineSeg(PA, PE), LineSeg(PE, PA)}

ArcPool ==
    {ArcSeg(PA, PB, 25, FALSE), ArcSeg(PB, PC, 25, TRUE), ArcSeg(PC, PA, 65, FALSE), ArcSeg(PB, PA, 25, TRUE),
     ArcSeg(PA, PD, 25, FALSE)}

BezPool == {BezSeg(PA, Vec(0, 30), Vec(10, 30), PC), BezSeg(PB, Vec(40, 1), Vec(41, 1), PN), BezSeg(PC, PC, PC, PC)}

Tolerances == {2, 12}

Matrices == {[a |-> 0, b |-> -1, c |-> 40, d |-> 1, e |-> 0, f |-> 0],
             [a |-> 0, b |-> 0, c |-> 0, d |-> 0, e |-> 0, f |-> 0]}

\* points of a segment offered as new entry points
EntryPoints(seg) ==
    IF seg.segType = "LINE"
    THEN {seg.start, seg.end, midOf(seg.start, seg.end), lerp(seg.start, seg.end, [n |-> 1, d |-> 10])}
    ELSE {seg.start, seg.end, ArcSeg_midpoint(seg)}

NoOp == [name |-> "none"]

IsPath(p, kind) == ~IsNull(p) /\ ~IsThrow(p) /\ p.kind = kind

AddSeg(seg) ==
    /\ IsNull(path)
    /\ Len(pending) < MaxSegs
    /\ pending' = Append(pending, seg)
    /\ UNCHANGED <<recv, path, op, nops, arcVars, fitVars, depthVars, geoVars>>

NewArcPath ==
    /\ IsNull(path)
    /\ \A i \in 1..Len(pending) : pending[i].segType \in {"LINE", "ARC"}
    /\ path' = ArcPath(pending)
    /\ op' = [name |-> "new ArcPath"]
    /\ UNCHANGED <<pending, recv, nops, arcVars, fitVars, depthVars, geoVars>>

NewBezPath ==
    /\ IsNull(path)
    /\ \A i \in 1..Len(pending) : pending[i].segType \in {"LINE", "BEZ"}
    /\ path' = BezPath(pending)
    /\ op' = [name |-> "new BezPath"]
    /\ UNCHANGED <<pending, recv, nops, arcVars, fitVars, depthVars, geoVars>>

\* an operation that reverses this.segs itself, not a copy of it
thisAfter_reversedInPlace(this) == [this EXCEPT !.segs = reverse(this.segs)]

\* The receiver once reversed, simplify, asLines, withNewEntryPoint or
\* transformed has returned or thrown.  Each reads this.segs through map,
\* slice, a spread or an index, which build new arrays; the reverse() of
\* reversed acts on the array map built; none assigns to a field of this or
\* of a segment.
thisAfter(this) == this

\* a call of an operation on the current path
Call(kind, o, result) ==
    /\ IsPath(path, kind)
    /\ nops < MaxOps
    /\ recv' = thisAfter(path)
    /\ path' = result
    /\ op' = o
    /\ nops' = nops + 1
    /\ pending' = <<>>
    /\ UNCHANGED <<arcVars, fitVars, depthVars, geoVars>>

CallReversed == Call("ArcPath", [name |-> "reversed"], ArcPath_reversed(path))

CallSimplify(tolerance) ==
    Call("ArcPath", [name |-> "simplify", tolerance |-> tolerance], ArcPath_simplify(path, tolerance))

CallAsLines(tolerance) ==
    Call("ArcPath", [name |-> "asLines", tolerance |-> tolerance], asLines(path, tolerance))

CallWithNewEntryPoint(splitSegIndex, newEntryPoint, tolerance) ==
    Call("ArcPath",
         [name |-> "withNewEntryPoint", splitSegIndex |-> splitSegIndex,
          newEntryPoint |-> newEntryPoint, tolerance |-> tolerance],
         withNewEntryPoint(path, splitSegIndex, newEntryPoint, tolerance))

\* a call of a query on the current path: the receiver stays the current
\* path, with the cache the query has filled; op holds the value returned
Query(o, value, after) ==
    /\ IsPath(path, "ArcPath")
    /\ nops < MaxOps
    /\ recv' = after
    /\ path' = after
    /\ op' = [o EXCEPT !.value = value]
    /\ nops' = nops + 1
    /\ pending' = <<>>
    /\ UNCHANGED <<arcVars, fitVars, depthVars, geoVars>>

CallGetAreaTo(tolerance, value) ==
    Query([name |-> "getArea", tolerance |-> tolerance, value |-> Null], value, ArcPath_afterGetArea(path, value))

CallGetArea(tolerance) == CallGetAreaTo(tolerance, ArcPath_getArea(path, tolerance))

CallGetBoundsTo(value) == Query([name |-> "getBounds", value |-> Null], value, ArcPath_afterGetBounds(path, value))

CallGetBounds == CallGetBoundsTo(ArcPath_getBounds(path))

CallArcFromJson == Call("ArcPath", [name |-> "fromJson"], ArcPath_fromJson(path_toJson(path)))

CallTransformed(m) == Call("BezPath", [name |-> "transformed", matrix |-> m], BezPath_transformed(path, m))

CallBezSimplify(tolerance) ==
    Call("BezPath", [name |-> "simplify", tolerance |-> tolerance], BezPath_simplify(path, tolerance))

CallBezFromJson == Call("BezPath", [name |-> "fromJson"], BezPath_fromJson(path_toJson(path)))

NextPath ==
    \/ \E seg \in LinePool \cup ArcPool \cup BezPool : AddSeg(seg)
    \/ NewArcPath
    \/ NewBezPath
    \/ CallReversed
    \/ \E tolerance \in Tolerances : CallSimplify(tolerance)
    \/ \E tolerance \in Tolerances : CallAsLines(tolerance)
    \/ \E tolerance \in Tolerances :
         IF IsPath(path, "ArcPath") /\ Len(path.segs) > 0
         THEN \E i \in 1..Len(path.segs) : \E pt \in EntryPoints(path.segs[i]) :
                 CallWithNewEntryPoint(i - 1, pt, tolerance)
         ELSE CallWithNewEntryPoint(0, PA, tolerance)
    \/ CallArcFromJson
    \/ \E tolerance \in Tolerances : CallGetArea(tolerance)
    \/ CallGetBounds
    \/ \E m \in Matrices : CallTransformed(m)
    \/ \E tolerance \in Tolerances : CallBezSimplify(tolerance)
    \/ CallBezFromJson

(***************************************************************************)
(* The arc machine: a caller constructs arc segments, directly, from JSON  *)
(* or from an arc descriptor through ArcSeg.oneOrMore.  The three are pure *)
(* functions of their arguments: a behaviour is one call.                  *)
(***************************************************************************)
\* the center and the radius of the circle the descriptors lie on
CO == Vec(0, 0)

DescriptorRadius == 65

\* the points with whole coordinates on that circle
CirclePoints ==
    {v \in [x : -DescriptorRadius..DescriptorRadius, y : -DescriptorRadius..DescriptorRadius] :
        v.x * v.x + v.y * v.y = DescriptorRadius * DescriptorRadius}

ArcEndPoints == {PA, PB, PC, PN}

Radii == {0, 1, 20, 21, 25, 65}

NewArcSeg(start, end, radius, clockwise) ==
    /\ arcOp = NoOp
    /\ arcOp' = [name |-> "new ArcSeg", start |-> start, end |-> end, radius |-> radius, clockwise |-> clockwise]
    /\ arcOut' = ArcSeg(start, end, radius, clockwise)
    /\ UNCHANGED <<pathVars, fitVars, depthVars, geoVars>>

CallArcSegFromJson(json) ==
    /\ arcOp = NoOp
    /\ arcOp' = [name |-> "ArcSeg.fromJson", start |-> Vec(json.s[1], json.s[2]), end |-> Vec(json.e[1], json.e[2]),
                 radius |-> json.r, clockwise |-> json.cw]
    /\ arcOut' = ArcSeg_fromJson(json)
    /\ UNCHANGED <<pathVars, fitVars, depthVars, geoVars>>

CallOneOrMore(start, end, radius, center, clockwise, tolerance) ==
    /\ arcOp = NoOp
    /\ arcOp' = [name |-> "ArcSeg.oneOrMore", start |-> start, end |-> end, radius |-> radius,
                 center |-> center, clockwise |-> clockwise, tolerance |-> tolerance]
    /\ arcOut' = oneOrMore(start, end, radius, center, clockwise, tolerance)
    /\ UNCHANGED <<pathVars, fitVars, depthVars, geoVars>>

NextArc ==
    \/ \E start \in ArcEndPoints, end \in ArcEndPoints, radius \in Radii, clockwise \in BOOLEAN :
         NewArcSeg(start, end, radius, clockwise)
    \/ \E start \in ArcEndPoints, end \in ArcEndPoints, radius \in Radii, clockwise \in BOOLEAN :
         CallArcSegFromJson([type |-> "arc", s |-> <<start.x, start.y>>, e |-> <<end.x, end.y>>,
                             r |-> radius, cw |-> clockwise])
    \/ \E start \in CirclePoints, end \in CirclePoints, clockwise \in BOOLEAN, tolerance \in Tolerances :
         CallOneOrMore(start, end, DescriptorRadius, CO, clockwise, tolerance)

(***************************************************************************)
(* The fitting machine: a caller calls BiArc.fromBezier on a curve; the    *)
(* calls of fromMonotoneBezier it leads to are run one by one, depth       *)
(* first, until none is left (fromBezier returns fitOut) or one throws.    *)
(***************************************************************************)
\* resolution units per step of the lattice the curves' points lie on
Grid == 64

FitPoints ==
    {Vec(0, 5 * Grid), Vec(6 * Grid, 0), Vec(7 * Grid, 0), Vec(Grid, 6 * Grid), Vec(0, 0), Vec(8 * Grid, 8 * Grid)}

FitTolerances == {Grid \div 4, Grid}

\* the largest radius a caller of toLASegs allows
MaxRadii == {0, 6 * Grid, 400 * Grid}

CallFromBezierWith(p1, c1, c2, p2, tolerance, o) ==
    /\ fitIn = NoOp
    /\ laIn = NoOp
    /\ fitIn' = [name |-> "BiArc.fromBezier", p1 |-> p1, c1 |-> c1, c2 |-> c2, p2 |-> p2, tolerance |-> tolerance]
    /\ fitStack' = o.calls
    /\ fitOut' = o.emit
    /\ fitLeaf' = Null
    /\ UNCHANGED <<laIn, laOut, pathVars, arcVars, depthVars, geoVars>>

CallFromBezier(p1, c1, c2, p2, tolerance) ==
    CallFromBezierWith(p1, c1, c2, p2, tolerance, fromBezier(p1, c1, c2, p2, tolerance))

\* the call on top of the stack has been evaluated to o: a throw unwinds
\* every pending call and is all that is left (fitOut holds the throw alone),
\* results are appended, recursive calls run next
MonoReturn(frame, o) ==
    /\ fitOut' = IF IsThrow(o) THEN <<o>> ELSE fitOut \o o.emit
    /\ fitStack' = IF IsThrow(o) THEN <<>> ELSE o.calls \o Tail(fitStack)
    /\ fitLeaf' = IF IsThrow(o) THEN Null
                  ELSE IF o.calls # <<>> THEN Null
                  ELSE [bez |-> frame.bez, branch |-> o.branch, emit |-> o.emit, circles |-> o.circles]

RunFromMonotoneBezier ==
    /\ fitStack # <<>>
    /\ MonoReturn(Head(fitStack),
                  fromMonotoneBezier(Head(fitStack).bez[1], Head(fitStack).bez[2], Head(fitStack).bez[3],
                                     Head(fitStack).bez[4], fitIn.tolerance, Head(fitStack).depth))
    /\ UNCHANGED <<fitIn, laIn, laOut, pathVars, arcVars, depthVars, geoVars>>

\* BezSeg.toLASegs(tolerance, false, maxRadius) on the curve of fitIn: the
\* call of BiArc.fromBezier it makes has come to its end, and toLASegs maps
\* the descriptors.  maxRadius is read here for the first time.
ReturnToLASegs(maxRadius) ==
    /\ fitIn # NoOp
    /\ fitStack = <<>>
    /\ laIn = NoOp
    /\ laIn' = [name |-> "BezSeg.toLASegs", start |-> fitIn.p1, c1 |-> fitIn.c1, c2 |-> fitIn.c2, end |-> fitIn.p2,
                tolerance |-> fitIn.tolerance, disableArcs |-> FALSE, maxRadius |-> maxRadius]
    /\ laOut' = toLASegs_mapped(fitOut, fitIn.tolerance, maxRadius)
    /\ UNCHANGED <<fitIn, fitStack, fitOut, fitLeaf, pathVars, arcVars, depthVars, geoVars>>

\* BezSeg.toLASegs(tolerance, true, maxRadius): BezSeg.toLines alone
CallToLASegsLines(start, c1, c2, end, tolerance, maxRadius) ==
    /\ fitIn = NoOp
    /\ laIn = NoOp
    /\ laIn' = [name |-> "BezSeg.toLASegs", start |-> start, c1 |-> c1, c2 |-> c2, end |-> end,
                tolerance |-> tolerance, disableArcs |-> TRUE, maxRadius |-> maxRadius]
    /\ laOut' = BezSeg_toLines(start, c1, c2, end, tolerance)
    /\ UNCHANGED <<fitIn, fitStack, fitOut, fitLeaf, pathVars, arcVars, depthVars, geoVars>>

NextFit ==
    \/ \E p1 \in FitPoints, c1 \in FitPoints, c2 \in FitPoints, p2 \in FitPoints, tolerance \in FitTolerances :
         CallFromBezier(p1, c1, c2, p2, tolerance)
    \/ RunFromMonotoneBezier
    \/ \E maxRadius \in MaxRadii : ReturnToLASegs(maxRadius)
    \/ \E start \in FitPoints, c1 \in FitPoints, c2 \in FitPoints, end \in FitPoints, tolerance \in FitTolerances,
          maxRadius \in MaxRadii :
         CallToLASegsLines(start, c1, c2, end, tolerance, maxRadius)

(***************************************************************************)
(* The depth machine: one chain of nested fromMonotoneBezier calls, from   *)
(* the call fromBezier makes down to the innermost one, with the depth     *)
(* argument each call is given.  Which branch a call takes is decided by   *)
(* the geometry of its sub-curve; here the branch is an input.             *)
(***************************************************************************)
MaxNesting == 53

\* a call of fromMonotoneBezier with depth argument d: its first statement
\* throws 'too deep' when d > 50
Enter(d) ==
    /\ nesting < MaxNesting
    /\ nesting' = nesting + 1
    /\ depth' = d
    /\ failure' = IF d > MaxDepth THEN "too deep" ELSE "none"
    /\ UNCHANGED <<pathVars, arcVars, fitVars, geoVars>>

\* fromBezier calls fromMonotoneBezier without a depth argument: depth = 0
EnterFromBezier == nesting = 0 /\ Enter(0)

\* the innermost call goes through splitInHalf, which passes depth on
EnterFromSplitInHalf == nesting > 0 /\ failure = "none" /\ Enter(depth)

\* the innermost call splits at the worst sample and passes depth + 1
EnterFromErrorSplit == nesting > 0 /\ failure = "none" /\ Enter(depth + 1)

\* the innermost call returns descriptors; the calls above it complete
ReturnDescriptors ==
    /\ nesting > 0
    /\ failure = "none"
    /\ nesting' = 0
    /\ depth' = 0
    /\ UNCHANGED <<failure, pathVars, arcVars, fitVars, geoVars>>

NextDepth == EnterFromBezier \/ EnterFromSplitInHalf \/ EnterFromErrorSplit \/ ReturnDescriptors

(***************************************************************************)
(* The geometry machine: a caller calls one of the static geometry         *)
(* functions.  Each is a pure function of its arguments: a behaviour is    *)
(* one call.                                                               *)
(***************************************************************************)
\* the call has been made with the arguments in o and has returned out
CallGeo(o, out) ==
    /\ geoOp = NoOp
    /\ geoOp' = o
    /\ geoOut' = out
    /\ UNCHANGED <<pathVars, arcVars, fitVars, depthVars>>

\* the most points a caller passes to Line.rdp
MaxPoints == 4

\* points near and far from the segment (0,0) - (40,0) and from each other
RdpPoints == {Vec(0, 0), Vec(10, 1), Vec(20, -1), Vec(30, 10), Vec(40, 0)}

PointLists == UNION {[1..n -> RdpPoints] : n \in 2..MaxPoints}

CallRdp(points, tolerance) == CallGeo([name |-> "Line.rdp", points |-> points, tolerance |-> tolerance], rdp(points, tolerance))

\* control points of curves, among them the S-shaped (0,0), (1,0), (2,1), (3,1)
CurvePoints == {Vec(0, 0), Vec(1, 0), Vec(2, 1), Vec(3, 1), Vec(0, 2), Vec(3, -1)}

CallInflectionPoints(s, c1, c2, e) ==
    CallGeo([name |-> "CubicBezier.inflectionPoints", s |-> s, c1 |-> c1, c2 |-> c2, e |-> e],
            inflectionPoints(s, c1, c2, e))

\* getBounds of an arc between two points of the descriptors' circle
CallArcSegGetBounds(seg) == CallGeo([name |-> "ArcSeg.getBounds", seg |-> seg], ArcSeg_getBounds(seg))

\* end points of the segments line2line is called on: parallel, crossing and
\* degenerate pairs are among them
LinePoints == {Vec(0, 0), Vec(4, 0), Vec(0, 3), Vec(4, 3), Vec(8, 6), Vec(2, 5)}

CallLine2Line(seg1, seg2) == CallGeo([name |-> "Intersection.line2line", seg1 |-> seg1, seg2 |-> seg2], line2line(seg1, seg2))

\* centers and radii of the circles arc2arc is called on: concentric,
\* disjoint, touching and crossing pairs are among them
CircleCenters == {Vec(0, 0), Vec(30, 40), Vec(100, 0), Vec(0, 20)}

CircleRadii == {10, 25, 50, 100}

CallArc2Arc(c1, r1, c2, r2) ==
    CallGeo([name |-> "Intersection.arc2arc", c1 |-> c1, r1 |-> r1, c2 |-> c2, r2 |-> r2], arc2arc(c1, r1, c2, r2))

\* one call of fromMonotoneBezier at depth 0: what it returns or hands on
CallFromMonotoneBezier(p1, c1, c2, p2, tolerance) ==
    CallGeo([name |-> "BiArc.fromMonotoneBezier", p1 |-> p1, c1 |-> c1, c2 |-> c2, p2 |-> p2, tolerance |-> tolerance],
            fromMonotoneBezier(p1, c1, c2, p2, tolerance, 0))

\* corners and points of boxes
BoxPoints == {Vec(0, 0), Vec(4, 3), Vec(4, 0), Vec(-2, 5)}

\* the boxes a caller holds
Boxes == {fromPoints(p1, p2) : p1 \in BoxPoints, p2 \in BoxPoints}

\* the most boxes a caller passes to merge, the most segments of a path
\* whose bounds are asked for
MaxBoxes == 2

BoxLists == UNION {[1..n -> Boxes] : n \in 0..MaxBoxes}

ArcSegLists == UNION {[1..n -> LinePool \cup ArcPool] : n \in 0..MaxBoxes}

BezSegLists == UNION {[1..n -> LinePool \cup BezPool] : n \in 0..MaxBoxes}

CallNewBoundingBox(min, max) == CallGeo([name |-> "new BoundingBox", min |-> min, max |-> max], BoundingBox(min, max))

CallFromPoints(p1, p2) == CallGeo([name |-> "BoundingBox.fromPoints", p1 |-> p1, p2 |-> p2], fromPoints(p1, p2))

CallExtendWithPoint(bb, point) ==
    CallGeo([name |-> "BoundingBox.extendWithPoint", bb |-> bb, point |-> point], extendWithPoint(bb, point))

CallMerge(bbs) == CallGeo([name |-> "BoundingBox.merge", bbs |-> bbs], merge(bbs))

CallLineSegGetBounds(seg) == CallGeo([name |-> "LineSeg.getBounds", seg |-> seg], LineSeg_getBounds(seg))

\* getBounds of a path that has just been constructed
CallArcPathGetBounds(p) == CallGeo([name |-> "ArcPath.getBounds", path |-> p], ArcPath_getBounds(p))

CallBezPathGetBounds(p) == CallGeo([name |-> "BezPath.getBounds", path |-> p], BezPath_getBounds(p))

NextGeo ==
    \/ \E min \in BoxPoints, max \in BoxPoints : CallNewBoundingBox(min, max)
    \/ \E p1 \in BoxPoints, p2 \in BoxPoints : CallFromPoints(p1, p2)
    \/ \E bb \in Boxes, point \in BoxPoints : CallExtendWithPoint(bb, point)
    \/ \E bbs \in BoxLists : CallMerge(bbs)
    \/ \E seg \in LinePool : CallLineSegGetBounds(seg)
    \/ \E segs \in ArcSegLists : geoOp = NoOp /\ ~IsThrow(ArcPath(segs)) /\ CallArcPathGetBounds(ArcPath(segs))
    \/ \E segs \in BezSegLists : geoOp = NoOp /\ ~IsThrow(BezPath(segs)) /\ CallBezPathGetBounds(BezPath(segs))
    \/ \E a \in LinePoints, b \in LinePoints, c \in LinePoints, d \in LinePoints : CallLine2Line(<<a, b>>, <<c, d>>)
    \/ \E c1 \in CircleCenters, c2 \in CircleCenters, r1 \in CircleRadii, r2 \in CircleRadii : CallArc2Arc(c1, r1, c2, r2)
    \/ \E p1 \in FitPoints, c1 \in FitPoints, c2 \in FitPoints, p2 \in FitPoints, tolerance \in FitTolerances :
         CallFromMonotoneBezier(p1, c1, c2, p2, tolerance)
    \/ \E points \in PointLists, tolerance \in Tolerances : CallRdp(points, tolerance)
    \/ \E start \in CirclePoints, end \in CirclePoints, clockwise \in BOOLEAN :
         /\ geoOp = NoOp
         /\ ~equals(start, end)
         /\ ~IsThrow(ArcSeg(start, end, DescriptorRadius, clockwise))
         /\ CallArcSegGetBounds(ArcSeg(start, end, DescriptorRadius, clockwise))
    \/ \E s \in CurvePoints, c1 \in CurvePoints, c2 \in CurvePoints, e \in CurvePoints : CallInflectionPoints(s, c1, c2, e)

(***************************************************************************)
(* Specifications: one per machine, over the same variables.               *)
(***************************************************************************)
Init ==
    /\ pending = <<>> /\ recv = Null /\ path = Null /\ op = NoOp /\ nops = 0
    /\ arcOp = NoOp /\ arcOut = Null
    /\ fitIn = NoOp /\ fitStack = <<>> /\ fitOut = <<>> /\ fitLeaf = Null
    /\ laIn = NoOp /\ laOut = <<>>
    /\ nesting = 0 /\ depth = 0 /\ failure = "none"
    /\ geoOp = NoOp /\ geoOut = Null

SpecPath == Init /\ [][NextPath]_vars

SpecArc == Init /\ [][NextArc]_vars

SpecFit == Init /\ [][NextFit]_vars

SpecGeo == Init /\ [][NextGeo]_vars

SpecDepth == Init /\ [][NextDepth]_vars

(***************************************************************************)
(* Claims about paths (SpecPath).                                          *)
(***************************************************************************)
IsAnyPath(p) == IsPath(p, "ArcPath") \/ IsPath(p, "BezPath")

Constructing == op.name \in {"new ArcPath", "new BezPath"}

\* the 1-based indices i whose segment does not end where segment i+1 starts
AdjacentBreaks(segs) == {i \in 1..(Len(segs) - 1) : ~equals(segs[i].end, segs[i + 1].start)}

\* what each constructor keeps of its input
Kept(segs) == IF op.name = "new BezPath" THEN BezPath_filter(segs) ELSE ArcPath_filter(segs)

\* C5: every path there is, whether constructed or returned by reversed,
\* simplify, asLines, transformed, withNewEntryPoint or fromJson, has each
\* stored segment end where the next one starts; and a constructor whose
\* filtered input has a discontinuous adjacent pair throws, producing no path.
C5_PathContinuity ==
    /\ IsAnyPath(path) => AdjacentBreaks(path.segs) = {}
    /\ IsAnyPath(recv) => AdjacentBreaks(recv.segs) = {}
    /\ (Constructing /\ AdjacentBreaks(Kept(pending)) # {}) => IsThrow(path)

\* a path of three segments or more returned by the second operation called
C5_Witness == nops = 2 /\ IsAnyPath(path) /\ Len(path.segs) >= 3 /\ op.name \in {"simplify", "withNewEntryPoint"}

\* C6: an ArcPath constructed from a continuous sequence of non-degenerate
\* segments whose last end differs from its first start is constructed, and
\* is not closed.
C6_OpenPath ==
    (/\ op.name = "new ArcPath"
     /\ Len(pending) >= 1
     /\ \A i \in 1..Len(pending) : ~equals(pending[i].start, pending[i].end)
     /\ AdjacentBreaks(pending) = {}
     /\ ~equals(pending[Len(pending)].end, pending[1].start))
    => (IsPath(path, "ArcPath") /\ ~isClosed(path))

\* C7: a constructor that rejects its input for discontinuity does so for the
\* first adjacent pair of the filtered input that is discontinuous, and the
\* index it reports is that of a segment of this pair (0-based).
C7_ContinuityRejection ==
    (Constructing /\ IsThrow(path))
    => (/\ AdjacentBreaks(Kept(pending)) # {}
        /\ path.index \in {SetMin(AdjacentBreaks(Kept(pending))) - 1, SetMin(AdjacentBreaks(Kept(pending)))})

\* C8: no path there is, whether constructed or returned by an operation,
\* stores a line segment whose start equals its end.
C8_NoZeroLengthLine ==
    /\ IsAnyPath(path) => \A i \in 1..Len(path.segs) :
                              ~(path.segs[i].segType = "LINE" /\ equals(path.segs[i].start, path.segs[i].end))
    /\ IsAnyPath(recv) => \A i \in 1..Len(recv.segs) :
                              ~(recv.segs[i].segType = "LINE" /\ equals(recv.segs[i].start, recv.segs[i].end))

\* a path constructed from an array that held a line from a point to (nearly)
\* itself, and that kept two segments or more of it
C8_Witness ==
    /\ Constructing /\ IsAnyPath(path) /\ Len(path.segs) >= 2
    /\ \E i \in 1..Len(pending) : pending[i].segType = "LINE" /\ equals(pending[i].start, pending[i].end)

\* the segments of a loop from its k-th on (1-based), around to the k-1-th
Rotated(segs, k) == SubSeq1(segs, k, Len(segs)) \o SubSeq1(segs, 1, k - 1)

\* C10: withNewEntryPoint on a closed ArcPath, for an index of one of its
\* segments and a point of that segment, returns a closed ArcPath that starts
\* within tolerance / 2 of the point and traces the same loop: its segments
\* are those of the receiver from some segment on, or from the second part of
\* the split segment on with the first part last.
C10_NewEntryPoint ==
    (op.name = "withNewEntryPoint" /\ isClosed(recv))
    => (/\ IsPath(path, "ArcPath")
        /\ isClosed(path)
        /\ 2 * dist(path.segs[1].start, op.newEntryPoint) <= op.tolerance
        /\ \/ \E k \in 1..Len(recv.segs) : path.segs = Rotated(recv.segs, k)
           \/ /\ Len(path.segs) = Len(recv.segs) + 1
              /\ path.segs[1].start = op.newEntryPoint
              /\ path.segs[Len(path.segs)].end = op.newEntryPoint
              /\ SubSeq1(path.segs, 2, Len(path.segs) - 1)
                   = SubSeq1(Rotated(recv.segs, op.splitSegIndex + 1), 2, Len(recv.segs)))

\* C11: withNewEntryPoint on a closed ArcPath chooses among three cases by
\* distance.  A point within tolerance / 2 of segment i's start gives the
\* rotation that begins with segment i; otherwise a point within
\* tolerance / 2 of segment i's end gives the rotation that begins with the
\* segment after i; both have the receiver's segment count.  Otherwise
\* segment i is split at the point: the result begins with the second half,
\* ends with the first half and has one segment more than the receiver.
C11_EntryPointCases ==
    (op.name = "withNewEntryPoint" /\ isClosed(recv))
    => IF 2 * dist(op.newEntryPoint, recv.segs[op.splitSegIndex + 1].start) < op.tolerance
       THEN IsPath(path, "ArcPath") /\ path.segs = Rotated(recv.segs, op.splitSegIndex + 1)
       ELSE IF 2 * dist(op.newEntryPoint, recv.segs[op.splitSegIndex + 1].end) < op.tolerance
       THEN /\ IsPath(path, "ArcPath")
            /\ path.segs = Rotated(recv.segs, ((op.splitSegIndex + 1) % Len(recv.segs)) + 1)
       ELSE /\ IsPath(path, "ArcPath")
            /\ Len(path.segs) = Len(recv.segs) + 1
            /\ path.segs[1] = seg_splitAt(recv.segs[op.splitSegIndex + 1], op.newEntryPoint)[2]
            /\ path.segs[Len(path.segs)] = seg_splitAt(recv.segs[op.splitSegIndex + 1], op.newEntryPoint)[1]
            /\ SubSeq1(path.segs, 2, Len(path.segs) - 1)
                 = SubSeq1(Rotated(recv.segs, op.splitSegIndex + 1), 2, Len(recv.segs))

\* C12: withNewEntryPoint fails with 'ArcPath is not closed', returning no
\* path, exactly when the receiver's isClosed() is false: always on a path
\* that is not closed, never on a closed one.
C12_NotClosedFailure ==
    op.name = "withNewEntryPoint" => (~isClosed(recv) <=> path = Throw("ArcPath is not closed"))

\* withNewEntryPoint has been called on a path that is not closed
C12_Witness == op.name = "withNewEntryPoint" /\ ~isClosed(recv) /\ IsThrow(path)

\* withNewEntryPoint has been called on a closed path, and failed in another way
C12_WitnessClosed == op.name = "withNewEntryPoint" /\ isClosed(recv) /\ IsThrow(path)

\* a path object with the segments of p and nothing cached
Uncached(p) == [p EXCEPT !.cachedBounds = Null, !.cachedArea = Null]

\* the value -a of an area a, or the throw in its place
Negated(a) == IF IsThrow(a) THEN a ELSE [v |-> -a.v]

\* rr has the segments of p, position by position, and the area of p
SameSegmentsAndArea(rr, p) ==
    /\ IsPath(rr, "ArcPath")
    /\ Len(rr.segs) = Len(p.segs)
    /\ \A i \in 1..Len(p.segs) : rr.segs[i] = p.segs[i]
    /\ \A tolerance \in Tolerances : ArcPath_getArea(rr, tolerance) = ArcPath_getArea(p, tolerance)

\* C13: reversal is an involution.  For a path p that reversed() has been
\* called on, p.reversed().reversed() has as many segments as p and,
\* position by position, the same segment type, start, end, radius, winding
\* and derived center, and getArea returns for it what it returns for p,
\* whether p's area was cached before reversing or not.
C13_ReversalInvolution ==
    op.name = "reversed" => (IsPath(path, "ArcPath") /\ SameSegmentsAndArea(ArcPath_reversed(path), recv))

\* reversed() called on a path of three segments or more, an arc and a line
\* among them, whose area was cached
C13_Witness ==
    /\ op.name = "reversed" /\ Len(recv.segs) >= 3 /\ ~IsNull(recv.cachedArea)
    /\ \E i \in 1..Len(recv.segs) : recv.segs[i].segType = "ARC"
    /\ \E i \in 1..Len(recv.segs) : recv.segs[i].segType = "LINE"

\* segment r is segment s run backwards
IsReversalOf(r, s) ==
    /\ r.segType = s.segType /\ r.start = s.end /\ r.end = s.start
    /\ s.segType = "ARC" => (r.radius = s.radius /\ r.clockwise = ~s.clockwise)

\* r holds the segments of p in reverse order, each run backwards
C14_ReversedSegments(r, p) ==
    /\ Len(r.segs) = Len(p.segs)
    /\ \A i \in 1..Len(p.segs) : IsReversalOf(r.segs[i], p.segs[Len(p.segs) + 1 - i])

\* the area of r is the negation of p's, and an area r carries over is one
\* that getArea computes on r's segments
C14_ReversedArea(r, p) ==
    /\ \A tolerance \in Tolerances : ArcPath_getArea(r, tolerance) = Negated(ArcPath_getArea(p, tolerance))
    /\ ~IsNull(r.cachedArea) => \E tolerance \in Tolerances : r.cachedArea = ArcPath_getArea(Uncached(r), tolerance)

\* the bounds of r are those of p, and bounds r carries over are those that
\* getBounds computes on r's segments
C14_ReversedBounds(r, p) ==
    /\ ArcPath_getBounds(r) = ArcPath_getBounds(p)
    /\ ~IsNull(r.cachedBounds) => r.cachedBounds = ArcPath_getBounds(Uncached(r))

\* C14: p.reversed() holds p's segments in reverse order, each with start
\* and end swapped and arc winding flipped; its area is the negation of p's
\* area and its bounds equal p's bounds, and the values it carries over
\* from p's caches agree with a fresh computation on its own segments.
C14_Reversed ==
    op.name = "reversed"
    => /\ IsPath(path, "ArcPath")
       /\ C14_ReversedSegments(path, recv)
       /\ C14_ReversedArea(path, recv)
       /\ C14_ReversedBounds(path, recv)

\* C15: JSON round trip.  fromJson(p.toJson()), for an ArcPath p and for a
\* BezPath p alike, succeeds and yields the segment sequence of p: the same
\* length and, position by position, the same type, start and end, the same
\* control points for a bez record, the same radius, winding and re-derived
\* center for an arc record; the decoded path has no cached bounds or area,
\* whatever p had cached.
\* The record {type:'arc', s:[1,0], e:[0,1], r:1, cw:false}, taken at 40
\* units to 1, decodes to an arc whose center is (0,0).
C15_JsonRoundTrip ==
    /\ ArcSeg_fromJson([type |-> "arc", s |-> <<40, 0>>, e |-> <<0, 40>>, r |-> 40, cw |-> FALSE]).center = Vec(0, 0)
    /\ op.name = "fromJson"
       =>
       /\ IsAnyPath(path)
       /\ path.kind = recv.kind
       /\ Len(path.segs) = Len(recv.segs)
       /\ \A i \in 1..Len(recv.segs) : path.segs[i] = recv.segs[i]
       /\ IsNull(path.cachedBounds)
       /\ path.kind = "ArcPath" => IsNull(path.cachedArea)

\* a round trip of an ArcPath of three segments or more, a clockwise arc and
\* a line among them, whose bounds were cached
C15_Witness ==
    /\ op.name = "fromJson" /\ IsPath(recv, "ArcPath") /\ Len(recv.segs) >= 3 /\ ~IsNull(recv.cachedBounds)
    /\ \E i \in 1..Len(recv.segs) : recv.segs[i].segType = "ARC" /\ recv.segs[i].clockwise
    /\ \E i \in 1..Len(recv.segs) : recv.segs[i].segType = "LINE"

\* a round trip of a BezPath with a bez record and a line record
C15_WitnessBez ==
    /\ op.name = "fromJson" /\ IsPath(recv, "BezPath")
    /\ \E i \in 1..Len(recv.segs) : recv.segs[i].segType = "BEZ"
    /\ \E i \in 1..Len(recv.segs) : recv.segs[i].segType = "LINE"

\* the operations that return a path built from the receiver's segments
PathOperations == {"reversed", "simplify", "asLines", "withNewEntryPoint", "transformed"}

C25_AreaCacheCoherence ==
    (op.name = "getArea" /\ ~IsThrow(op.value))
    => op.value = ArcPath_computedArea(asLines(path, op.tolerance))

(***************************************************************************)
(* Claims about arc segments (SpecArc).                                    *)
(***************************************************************************)
\* the arcs among the segments a call of oneOrMore returned
ArcsOut == {i \in 1..Len(arcOut) : ~IsThrow(arcOut[i]) /\ arcOut[i].segType = "ARC"}

\* C3: every ArcSeg that ArcSeg.oneOrMore returns has radius vectors from its
\* center to its start and to its end whose dot product is not negative: it
\* subtends at most 90 degrees.
C3_ArcSpanBound ==
    arcOp.name = "ArcSeg.oneOrMore"
    => \A i \in ArcsOut :
          dot(minus(arcOut[i].start, arcOut[i].center), minus(arcOut[i].end, arcOut[i].center)) >= 0

\* a descriptor wider than 90 degrees that came back as three arcs or more
C3_Witness ==
    /\ arcOp.name = "ArcSeg.oneOrMore"
    /\ dot(minus(arcOp.start, arcOp.center), minus(arcOp.end, arcOp.center)) < 0
    /\ Cardinality(ArcsOut) >= 3

\* C9: new ArcSeg(start, end, radius, clockwise), and ArcSeg.fromJson alike,
\* throws 'radius too small' exactly when dist(start, end) >= 2 * radius;
\* otherwise the segment has a center at distance radius (to the nearest
\* unit) from start and from end, on the side of the chord that gives the
\* requested winding.
C9_ArcSegConstruction ==
    arcOp.name \in {"new ArcSeg", "ArcSeg.fromJson"}
    => /\ IsThrow(arcOut) <=> (arcOp.radius <= 0 \/ distSquared(arcOp.start, arcOp.end) >= 4 * arcOp.radius * arcOp.radius)
       /\ ~IsThrow(arcOut) =>
            /\ ~IsNaN(arcOut.center)
            /\ Abs(dist(arcOut.center, arcOp.start) - arcOp.radius) <= 1
            /\ Abs(dist(arcOut.center, arcOp.end) - arcOp.radius) <= 1
            /\ (crossAbout(arcOut.center, arcOp.start, arcOp.end) < 0) = arcOp.clockwise
            /\ crossAbout(arcOut.center, arcOp.start, arcOp.end) # 0

(***************************************************************************)
(* Claims about curve fitting (SpecFit).                                   *)
(***************************************************************************)
\* BiArc.fromBezier has returned: no call is left to run and none threw
FitReturned == fitIn # NoOp /\ fitStack = <<>> /\ ~HasThrow(fitOut)

\* C1: whenever BiArc.fromBezier returns, the descriptor list is not empty,
\* its first descriptor starts at p1, its last descriptor ends at p2, and
\* each descriptor's end is the next descriptor's start, whichever splits,
\* single-arc collapses and line fallbacks were taken.
C1_EndpointPreservation ==
    FitReturned =>
        /\ Len(fitOut) > 0
        /\ fitOut[1].start = fitIn.p1
        /\ fitOut[Len(fitOut)].end = fitIn.p2
        /\ \A i \in 1..(Len(fitOut) - 1) : fitOut[i].end = fitOut[i + 1].start

\* a fit that returned at least four descriptors, arcs and lines among them
C1_Witness ==
    /\ FitReturned
    /\ Len(fitOut) >= 4
    /\ \E i \in 1..Len(fitOut) : fitOut[i].arc
    /\ \E i \in 1..Len(fitOut) : ~fitOut[i].arc

\* the distance from the curve point at t = n / 5 to the nearer fitted circle
sampledError(leaf, n) ==
    LET bt == calculate(leaf.bez[1], leaf.bez[2], leaf.bez[3], leaf.bez[4], [n |-> n, d |-> 5])
        errors == {Abs(dist(leaf.circles[k].center, bt) - leaf.circles[k].radius) : k \in 1..Len(leaf.circles)}
    IN  CHOOSE e \in errors : \A f \in errors : e <= f

\* a call of fromMonotoneBezier has just returned descriptors with an arc among them
LeafWithArcs == ~IsNull(fitLeaf) /\ \E i \in 1..Len(fitLeaf.emit) : fitLeaf.emit[i].arc

\* C2: whenever monotone fitting ends on a sub-curve by emitting arcs, the
\* distance from the curve point to the nearer fitted circle is at most the
\* tolerance at each of the sampled parameters 0.2, 0.4, 0.6, 0.8.
C2_SampledTolerance == LeafWithArcs => \A n \in 1..4 : sampledError(fitLeaf, n) <= fitIn.tolerance

\* the four control points of a call coincide
Degenerate(call) == call.c1 = call.start /\ call.c2 = call.start /\ call.end = call.start

\* C17: degenerate collapse.  BezSeg.toLASegs on a curve whose four control
\* points coincide returns no segment, at each tolerance, with arcs
\* disabled and with arcs enabled: the zero-length descriptors the fit
\* produces are all filtered out.
C17_DegenerateCollapse == (laIn # NoOp /\ Degenerate(laIn)) => laOut = <<>>

\* toLASegs with arcs enabled has returned for a degenerate curve, for which
\* the fit had produced descriptors
C17_Witness == laIn # NoOp /\ Degenerate(laIn) /\ ~laIn.disableArcs /\ Len(fitOut) >= 2

\* toLASegs with arcs disabled has returned for a degenerate curve
C17_WitnessLines == laIn # NoOp /\ Degenerate(laIn) /\ laIn.disableArcs

\* c1 and c2 lie on the line through p1 and p2
Collinear(p1, c1, c2, p2) == crossAbout(p1, c1, p2) = 0 /\ crossAbout(p1, c2, p2) = 0

\* C18: flat-curve fast path.  For a curve whose four control points are
\* exactly collinear and whose start differs from its end, BiArc.fromBezier
\* returns exactly one descriptor, the line from the curve's start to its
\* end, at each tolerance.
C18_FlatFastPath ==
    (/\ fitIn # NoOp /\ fitStack = <<>>
     /\ fitIn.p1 # fitIn.p2
     /\ Collinear(fitIn.p1, fitIn.c1, fitIn.c2, fitIn.p2))
    => fitOut = <<BiArc_line(fitIn.p1, fitIn.p2)>>

\* toLASegs with arcs enabled has returned segments
ReturnedWithArcs == laIn # NoOp /\ ~laIn.disableArcs /\ ~HasThrow(laOut)

\* what C19 expects in place of descriptor d
C19_InPlaceOf(d, tolerance, maxRadius) ==
    IF d.arc /\ d.radius <= maxRadius
    THEN oneOrMore(d.start, d.end, d.radius, d.center, d.clockwise, tolerance)
    ELSE IF equals(d.start, d.end) THEN <<>> ELSE <<LineSeg(d.start, d.end)>>

\* C19: BezSeg.toLASegs(tolerance, false, maxRadius) never returns an
\* ArcSeg whose radius exceeds maxRadius.  Every fitted Arc descriptor with
\* radius > maxRadius is replaced by the single LineSeg from its start to
\* its end, or by nothing if its start equals its end; every other Arc
\* descriptor is replaced by what ArcSeg.oneOrMore returns for it, with its
\* radius unchanged.
C19_MaxRadius ==
    ReturnedWithArcs
    => /\ \A i \in 1..Len(laOut) : laOut[i].segType = "ARC" => laOut[i].radius <= laIn.maxRadius
       /\ laOut = concatAll([i \in 1..Len(fitOut) |-> C19_InPlaceOf(fitOut[i], laIn.tolerance, laIn.maxRadius)])

\* toLASegs has returned arcs, and a line in place of an Arc descriptor
\* whose radius exceeded maxRadius
C19_Witness ==
    /\ ReturnedWithArcs
    /\ \E i \in 1..Len(laOut) : laOut[i].segType = "ARC"
    /\ \E i \in 1..Len(fitOut) :
          fitOut[i].arc /\ fitOut[i].radius > laIn.maxRadius /\ ~equals(fitOut[i].start, fitOut[i].end)

\* p lies at the descriptor's radius from center, to the rounding of a length
\* and of a point
C20_AtRadius(d, center, p) == Abs(dist(center, p) - d.radius) <= EPSILON

\* center is not on the other side of the chord than the clockwise flag says
C20_OnSide(d, center) ==
    IF d.clockwise THEN crossAbout(center, d.start, d.end) <= 0 ELSE crossAbout(center, d.start, d.end) >= 0

\* Circle.findCenter rebuilds the descriptor's center from its start, end,
\* radius and clockwise flag: it returns a point with start and end at the
\* radius, on the side of the chord the flag names, which is where the
\* descriptor's center lies (two circles of one radius through the same two
\* points and on the same side of them are the same circle).  A chord within
\* a rounding of the diameter is one that findCenter may see as too long.
C20_Reconstructed(d, center) ==
    IF IsNull(center) THEN 2 * d.radius - dist(d.start, d.end) <= EPSILON
    ELSE /\ ~IsNaN(center)
         /\ C20_AtRadius(d, center, d.start) /\ C20_AtRadius(d, center, d.end)
         /\ C20_OnSide(d, center)

C20_WitnessSingleArc ==
    /\ FitReturned
    /\ ~IsNull(fitLeaf)
    /\ fitLeaf.branch \in {"single arc, g at p1", "single arc, g at p2"}
    /\ fitLeaf.emit[1].arc

\* cross(B'(t), B''(t)) of the curve bez, up to a positive factor, is
\* a t^2 + b t + c with these coefficients: its sign is the side the curve
\* turns to at t
curvatureCoefficients(aVec, bVec, cVec) == <<cross(bVec, cVec), cross(aVec, cVec), cross(aVec, bVec)>>

curvatureOf(bez) ==
    curvatureCoefficients(minus(bez[2], bez[1]),
                          minus(minus(bez[3], bez[2]), minus(bez[2], bez[1])),
                          minus(minus(minus(bez[4], bez[3]), minus(bez[2], bez[1])),
                                multiply(minus(minus(bez[3], bez[2]), minus(bez[2], bez[1])), 2, 1)))

\* the sign of the turn at t = n / 4
turnAt(k, n) == Sign(k[1] * n * n + k[2] * n * 4 + k[3] * 16)

\* the curve turns one way at one of t = 1/4, 1/2, 3/4 and the other way at
\* another: an inflection point lies between them, strictly inside (0, 1)
InflectedInside(bez) ==
    \E n, m \in 1..3 : turnAt(curvatureOf(bez), n) > 0 /\ turnAt(curvatureOf(bez), m) < 0

\* C21: every sub-curve that fromBezier hands to monotone fitting is
\* monotone, it has no inflection point strictly inside (0,1): the two halves
\* made when the end points coincide or the handles cross, the two pieces of
\* the one-inflection case and the three pieces of the two-inflection case.
C21_MonotonePieces ==
    [][(fitIn = NoOp /\ fitIn' # NoOp) => \A i \in 1..Len(fitStack') : ~InflectedInside(fitStack'[i].bez)]_vars

\* the point of the curve at parameter t, by de Casteljau's construction
pointAt(p1, c1, c2, p2, t) == split(p1, c1, c2, p2, t)[1][4]

\* fromBezier has just found two inflection parameters and made three pieces
TwoInflections(call, pieces) ==
    /\ call # NoOp
    /\ Len(pieces) = 3
    /\ Len(inflectionPoints(call.p1, call.c1, call.c2, call.p2)) = 2

ipMinOf(ip) == IF FracLess(ip[2], ip[1]) THEN ip[2] ELSE ip[1]

ipMaxOf(ip) == IF FracLess(ip[2], ip[1]) THEN ip[1] ELSE ip[2]

\* the first piece ends, and the second starts, at the curve's point at ipMin;
\* the second ends, and the third starts, at the curve's point at ipMax
MeetAt(call, pieces, ip) ==
    /\ equals(pieces[1].bez[4], pointAt(call.p1, call.c1, call.c2, call.p2, ipMinOf(ip)))
    /\ pieces[2].bez[1] = pieces[1].bez[4]
    /\ equals(pieces[2].bez[4], pointAt(call.p1, call.c1, call.c2, call.p2, ipMaxOf(ip)))
    /\ pieces[3].bez[1] = pieces[2].bez[4]

\* C22: with two inflection parameters ipMin < ipMax, fromBezier splits the
\* curve at ipMin and the remainder at ipMax remapped into the remainder's
\* own range, so that the three pieces meet at the points of the original
\* curve at the parameters ipMin and ipMax.
C22_PiecesMeetAtInflections ==
    [][(fitIn = NoOp /\ TwoInflections(fitIn', fitStack'))
       => MeetAt(fitIn', fitStack', inflectionPoints(fitIn'.p1, fitIn'.c1, fitIn'.c2, fitIn'.p2))]_vars

(***************************************************************************)
(* Claims about the geometry functions (SpecGeo).                          *)
(***************************************************************************)
\* sub is s with some elements left out, the others in their order
RECURSIVE IsSubsequence(_, _)
IsSubsequence(sub, s) ==
    IF sub = <<>> THEN TRUE
    ELSE IF s = <<>> THEN FALSE
    ELSE IF Head(sub) = Head(s) THEN IsSubsequence(Tail(sub), Tail(s))
    ELSE IsSubsequence(sub, Tail(s))

\* every point but the first and the last lies within tolerance of the
\* segment from the first to the last
AllWithin(points, tolerance) ==
    \A i \in 2..(Len(points) - 1) : pointToSegmentDist(points[i], points[1], points[Len(points)]) <= tolerance

\* C23: Line.rdp(points, tolerance) keeps the first and the last input point
\* and returns the input with some points left out, the others in their
\* order; when every interior point lies within tolerance of the segment from
\* the first to the last point it returns exactly those two points, for every
\* input of two points or more.
C23_RdpCollapses ==
    geoOp.name = "Line.rdp"
    => /\ geoOut[1] = geoOp.points[1]
       /\ geoOut[Len(geoOut)] = geoOp.points[Len(geoOp.points)]
       /\ IsSubsequence(geoOut, geoOp.points)
       /\ AllWithin(geoOp.points, geoOp.tolerance) => geoOut = <<geoOp.points[1], geoOp.points[Len(geoOp.points)]>>

\* the number of roots of a t^2 + b t + c strictly inside (0, 1), for
\* coefficients that are not all zero, from the signs of the polynomial at 0
\* and at 1 and the place of its vertex; a double root counts once
RootsInside(a, b, c) ==
    IF a = 0 THEN (IF b # 0 /\ InOpenUnit(-c, b) THEN 1 ELSE 0)
    ELSE IF b * b - 4 * a * c < 0 THEN 0
    ELSE IF b * b - 4 * a * c = 0 THEN (IF InOpenUnit(-b, 2 * a) THEN 1 ELSE 0)
    ELSE IF c = 0 THEN (IF InOpenUnit(-b, a) THEN 1 ELSE 0)
    ELSE IF a + b + c = 0 THEN (IF InOpenUnit(c, a) THEN 1 ELSE 0)
    ELSE IF Sign(c) # Sign(a + b + c) THEN 1
    ELSE IF Sign(c) = Sign(a) /\ InOpenUnit(-b, 2 * a) THEN 2
    ELSE 0

\* the equation has finitely many roots: its coefficients are not all zero
FinitelyManyRoots(k) == k[1] # 0 \/ k[2] # 0 \/ k[3] # 0

\* C24: CubicBezier.inflectionPoints returns at most two values, each
\* strictly inside (0,1), and, whenever the equation a t^2 + b t + c = 0 of
\* the cross-product coefficients has finitely many roots, it returns every
\* root strictly inside (0,1), also when a is 0 and the equation is linear.
C24_InflectionRoots ==
    geoOp.name = "CubicBezier.inflectionPoints"
    => /\ Len(geoOut) <= 2
       /\ \A i \in 1..Len(geoOut) : InOpenUnit(geoOut[i].n, geoOut[i].d)
       /\ LET k == curvatureOf(<<geoOp.s, geoOp.c1, geoOp.c2, geoOp.e>>)
          IN  FinitelyManyRoots(k) => Len(geoOut) = RootsInside(k[1], k[2], k[3])

(***************************************************************************)
(* Claims about the recursion depth (SpecDepth).                           *)
(***************************************************************************)
\* C4: the nesting of recursive fromMonotoneBezier calls is bounded by 50: a
\* chain of subdivisions, half splits and error splits alike, that goes
\* deeper has ended in the 'too deep' failure.  The call fromBezier makes is
\* at depth 0, so nesting n is recursion depth n - 1.
C4_DepthBound == nesting - 1 > MaxDepth => failure = "too deep"

(***************************************************************************)
(* Claims about simplify (SpecPath).                                       *)
(***************************************************************************)
nonLines(segs) == SelectSeq(segs, LAMBDA seg : seg.segType # "LINE")

\* the arcs simplify does not take for lines
curvedArcs(segs, tolerance) ==
    SelectSeq(segs, LAMBDA seg : seg.segType = "ARC"
                                 /\ getLineError2(seg.start, seg.end, seg.center, seg.radius, seg.clockwise) >= tolerance)

starts(segs) == [i \in 1..Len(segs) |-> segs[i].start]

\* C26: simplify(tolerance) on a valid ArcPath returns a valid ArcPath
\* (continuous, no segment of length zero) with at most as many segments:
\* the segments that are not lines are those of the original whose line
\* error reaches tolerance / 2, in their order, and the vertices of the
\* result are vertices of the original in their order, from the same first
\* start to the same last end (a run that returns to its start within the
\* tolerance leaves no line at all).
C26_SimplifyKeepsShape ==
    (op.name = "simplify" /\ IsPath(recv, "ArcPath") /\ Len(recv.segs) > 0)
    => /\ IsPath(path, "ArcPath")
       /\ ArcPath_disruptions(path.segs) = {}
       /\ \A i \in 1..Len(path.segs) : ~equals(path.segs[i].start, path.segs[i].end)
       /\ Len(path.segs) <= Len(recv.segs)
       /\ nonLines(path.segs) = curvedArcs(recv.segs, op.tolerance)
       /\ IsSubsequence(starts(path.segs), starts(recv.segs))
       /\ Len(path.segs) > 0
          => /\ path.segs[1].start = recv.segs[1].start
             /\ path.segs[Len(path.segs)].end = recv.segs[Len(recv.segs)].end

\* simplify has joined lines of a run
C26_Witness ==
    /\ op.name = "simplify"
    /\ IsPath(path, "ArcPath")
    /\ Len(path.segs) < Len(recv.segs)
    /\ Len(path.segs) >= 2

\* simplify has left nothing of a run that returns to its start
C26_WitnessEmpty ==
    /\ op.name = "simplify"
    /\ IsPath(path, "ArcPath")
    /\ Len(recv.segs) > 0
    /\ Len(path.segs) = 0

\* simplify has replaced an arc by its chord
C26_WitnessChord ==
    /\ op.name = "simplify"
    /\ IsPath(path, "ArcPath")
    /\ Len(nonLines(path.segs)) < Len(nonLines(recv.segs))

(***************************************************************************)
(* Claims about bounds (SpecGeo).                                          *)
(***************************************************************************)
\* p lies in the box, its border included
Inside(bb, p) == bb.min.x <= p.x /\ p.x <= bb.max.x /\ bb.min.y <= p.y /\ p.y <= bb.max.y

\* the dot product of the radius vectors of an arc
radiusDot(seg) == dot(minus(seg.start, seg.center), minus(seg.end, seg.center))

\* p, a point of the circle of an arc of at most half a turn, lies on the arc
OnArc(seg, p) ==
    LET turnIn == cross(minus(seg.start, seg.center), minus(p, seg.center))
        turnOut == cross(minus(p, seg.center), minus(seg.end, seg.center))
    IN  IF seg.clockwise THEN turnIn <= 0 /\ turnOut <= 0 ELSE turnIn >= 0 /\ turnOut >= 0

\* both ends of the arc lie on the circle about its center, to the unit
OnItsCircle(seg) ==
    /\ lengthSquared(minus(seg.start, seg.center)) = seg.radius * seg.radius
    /\ lengthSquared(minus(seg.end, seg.center)) = seg.radius * seg.radius

\* the four points of the circle on the axes through its center, and the
\* midpoint of the arc
ArcSamples(seg) ==
    {plus(seg.center, Vec(seg.radius, 0)), minus(seg.center, Vec(seg.radius, 0)),
     plus(seg.center, Vec(0, seg.radius)), minus(seg.center, Vec(0, seg.radius)),
     ArcSeg_midpoint(seg)}

\* C27: ArcSeg.getBounds does not fail for an arc whose radius vectors have
\* a non-negative dot product (at most 90 degrees), endpoints on an axis
\* through the center included, and the box then contains both endpoints and
\* every point of the arc; it rejects every arc that spans more than 90
\* degrees.
C27_ArcBounds ==
    (geoOp.name = "ArcSeg.getBounds" /\ OnItsCircle(geoOp.seg))
    => IF radiusDot(geoOp.seg) >= 0
       THEN /\ ~IsThrow(geoOut)
            /\ Inside(geoOut, geoOp.seg.start)
            /\ Inside(geoOut, geoOp.seg.end)
            /\ \A p \in ArcSamples(geoOp.seg) : OnArc(geoOp.seg, p) => Inside(geoOut, p)
       ELSE IsThrow(geoOut)

\* the part of C27 about arcs of at most 90 degrees
C27_QuarterArcBounds ==
    (geoOp.name = "ArcSeg.getBounds" /\ OnItsCircle(geoOp.seg) /\ radiusDot(geoOp.seg) >= 0) => C27_ArcBounds

(***************************************************************************)
(* Claims about the chain ArcSeg.oneOrMore returns (SpecArc).              *)
(***************************************************************************)
\* segs is a chain of segments that leads from start to end: each segment
\* starts where the one before ends, at points that are numbers
IsChain(segs, start, end) ==
    /\ ~HasThrow(segs)
    /\ \A i \in 1..Len(segs) : ~IsNaN(segs[i].start) /\ ~IsNaN(segs[i].end)
    /\ IF Len(segs) = 0 THEN equals(start, end)
       ELSE /\ segs[1].start = start
            /\ segs[Len(segs)].end = end
            /\ \A i \in 1..(Len(segs) - 1) : segs[i].end = segs[i + 1].start

\* C28: ArcSeg.oneOrMore returns for every start and end on the circle of
\* the given radius about center and for either winding, diametrically
\* opposite ends and start = end included, and what it returns is a
\* continuous chain of segments from start to end.
C28_OneOrMoreChain ==
    arcOp.name = "ArcSeg.oneOrMore" => IsChain(arcOut, arcOp.start, arcOp.end)

\* the same for ends that are not diametrically opposite
C28_ChainUnlessOpposite ==
    (arcOp.name = "ArcSeg.oneOrMore" /\ plus(minus(arcOp.start, arcOp.center), minus(arcOp.end, arcOp.center)) # Vec(0, 0))
    => IsChain(arcOut, arcOp.start, arcOp.end)

(***************************************************************************)
(* Claims about geometry without a solution (SpecGeo).                     *)
(***************************************************************************)
\* the determinant line2line computes
determinant(seg1, seg2) == cross(minus(seg1[2], seg1[1]), minus(seg2[2], seg2[1]))

\* the incenter fromMonotoneBezier computes from the crossing v
incenter(p1, p2, v) ==
    LET dp1v == length(minus(v, p1))
        dp2v == length(minus(v, p2))
        dp1p2 == length(minus(p2, p1))
    IN  Vec(RDiv(dp2v * p1.x + dp1v * p2.x + dp1p2 * v.x, dp2v + dp1v + dp1p2),
            RDiv(dp2v * p1.y + dp1v * p2.y + dp1p2 * v.y, dp2v + dp1v + dp1p2))

\* the call goes past the tests for a flat and for a short curve
PastLineTests(call) ==
    /\ ~isFlat(call.p1, call.c1, call.c2, call.p2, call.tolerance)
    /\ length(minus(call.p2, call.p1)) >= call.tolerance

\* the handles of the curve have no crossing
NoCrossing(call) == determinant(<<call.p1, call.c1>>, <<call.p2, call.c2>>) = 0

\* the handles cross ahead of p1, and one of the centers cannot be built
NoCenter(call) ==
    /\ ~NoCrossing(call)
    /\ LET v == line2line(<<call.p1, call.c1>>, <<call.p2, call.c2>>).p
           g == incenter(call.p1, call.p2, v)
       IN  /\ dot(minus(call.c1, call.p1), minus(v, call.p1)) >= 0
           /\ \/ IsNull(BiArc_findCenter(call.p1, call.c1, g))
              \/ IsNull(BiArc_findCenter(call.p2, call.c2, g))

\* C29: geometry without a solution gives an absent or empty value, never a
\* failure: line2line returns null for parallel lines (determinant below the
\* cut-off), arc2arc returns nothing for concentric circles (equal radii
\* included) and for circles too far apart, and a call of fromMonotoneBezier
\* that finds no crossing of the handles or cannot build a center splits the
\* curve in half, without an error and without emitting an arc.
C29_NoSolution ==
    /\ (geoOp.name = "Intersection.line2line" /\ determinant(geoOp.seg1, geoOp.seg2) = 0) => IsNull(geoOut)
    /\ (geoOp.name = "Intersection.arc2arc"
          /\ (geoOp.c1 = geoOp.c2 \/ distSquared(geoOp.c1, geoOp.c2) > (geoOp.r1 + geoOp.r2) * (geoOp.r1 + geoOp.r2)))
       => geoOut = <<>>
    /\ (geoOp.name = "BiArc.fromMonotoneBezier" /\ PastLineTests(geoOp) /\ (NoCrossing(geoOp) \/ NoCenter(geoOp)))
       => /\ ~IsThrow(geoOut)
          /\ geoOut.branch = "splitInHalf"
          /\ geoOut.emit = <<>>
          /\ Len(geoOut.calls) = 2

C29_WitnessParallel == geoOp.name = "Intersection.line2line" /\ determinant(geoOp.seg1, geoOp.seg2) = 0 /\ geoOp.seg1[1] # geoOp.seg1[2] /\ geoOp.seg2[1] # geoOp.seg2[2]

C29_WitnessConcentric == geoOp.name = "Intersection.arc2arc" /\ geoOp.c1 = geoOp.c2 /\ geoOp.r1 = geoOp.r2

C29_WitnessNoCrossing == geoOp.name = "BiArc.fromMonotoneBezier" /\ PastLineTests(geoOp) /\ NoCrossing(geoOp)

\* a call of fromMonotoneBezier whose handles cross and that cannot build a center
C29_Witness == geoOp.name = "BiArc.fromMonotoneBezier" /\ PastLineTests(geoOp) /\ NoCenter(geoOp)

(***************************************************************************)
(* Claims about BoundingBox (SpecGeo).                                     *)
(***************************************************************************)
MinBelowMax(bb) == bb.min.x <= bb.max.x /\ bb.min.y <= bb.max.y

\* the operations that build a box from points or from boxes
BoxBuilders ==
    {"BoundingBox.fromPoints", "BoundingBox.merge", "BoundingBox.extendWithPoint", "LineSeg.getBounds",
     "ArcSeg.getBounds", "ArcPath.getBounds", "BezPath.getBounds"}

\* the call has returned a box
ReturnsBox == geoOp.name \in BoxBuilders \cup {"new BoundingBox"} /\ ~IsNull(geoOut) /\ ~IsThrow(geoOut)

\* C30: every BoundingBox there is has min <= max on both axes.  The
\* constructor rejects inverted corners with 'min>max', and only those;
\* fromPoints, merge and extendWithPoint never fail so, and neither do
\* LineSeg.getBounds, ArcSeg.getBounds, ArcPath.getBounds and
\* BezPath.getBounds.
C30_MinBelowMax ==
    /\ ReturnsBox => MinBelowMax(geoOut)
    /\ geoOp.name = "new BoundingBox"
       => IF geoOp.min.x > geoOp.max.x \/ geoOp.min.y > geoOp.max.y
          THEN geoOut = Throw("min>max")
          ELSE geoOut = [min |-> geoOp.min, max |-> geoOp.max]
    /\ geoOp.name \in BoxBuilders => geoOut # Throw("min>max")
    /\ geoOp.name \in BoxBuilders \ {"BoundingBox.merge", "ArcSeg.getBounds", "ArcPath.getBounds", "BezPath.getBounds"}
       => ReturnsBox

\* fromPoints called with the upper corner first
C30_Witness ==
    /\ geoOp.name = "BoundingBox.fromPoints"
    /\ geoOp.p1.x > geoOp.p2.x
    /\ geoOp.p1.y > geoOp.p2.y
    /\ ReturnsBox

\* the bounds of a path with an arc
C30_WitnessPath ==
    /\ geoOp.name = "ArcPath.getBounds"
    /\ \E i \in 1..Len(geoOp.path.segs) : geoOp.path.segs[i].segType = "ARC"
    /\ ReturnsBox

====
